---- MODULE Spec2Model ----
(***************************************************************************)
(* NetX thermostat TCP client (custom_components/netx_thermostat/api.py).  *)
(*                                                                         *)
(* Text is modelled as a sequence of one-character strings, so that        *)
(* strip, upper, startswith, replace, split, int() and float() are         *)
(* computed character by character as Python computes them.  An optional   *)
(* value is a set: {} is None and {v} is the value v.                      *)
(*                                                                         *)
(* The client runs on one asyncio event loop: a task runs without          *)
(* interruption until it suspends on network I/O or on a contended lock.   *)
(* `current` is the running task; event actions fire only when no task is  *)
(* running.                                                                *)
(***************************************************************************)
EXTENDS Integers, Sequences, FiniteSets, TLC

\* ------------------------------------------------------------------ text

None == {}
Some(v) == {v}
Val(o) == CHOOSE v \in o : TRUE

LowerChars == <<"a","b","c","d","e","f","g","h","i","j","k","l","m",
                "n","o","p","q","r","s","t","u","v","w","x","y","z">>
UpperChars == <<"A","B","C","D","E","F","G","H","I","J","K","L","M",
                "N","O","P","Q","R","S","T","U","V","W","X","Y","Z">>
Digits == <<"0","1","2","3","4","5","6","7","8","9">>

\* str.upper() on one character
UpperCh(ch) ==
    IF \E i \in 1..26 : LowerChars[i] = ch
    THEN UpperChars[CHOOSE i \in 1..26 : LowerChars[i] = ch]
    ELSE ch

\* str.upper()
Upper(s) == [i \in 1..Len(s) |-> UpperCh(s[i])]

\* the characters str.strip() removes
IsSpace(ch) == ch \in {" ", "\t", "\n", "\r"}

IsDigitCh(ch) == \E i \in 1..10 : Digits[i] = ch
DigitVal(ch) == (CHOOSE i \in 1..10 : Digits[i] = ch) - 1

RECURSIVE LStrip(_)
LStrip(s) == IF s # <<>> /\ IsSpace(Head(s)) THEN LStrip(Tail(s)) ELSE s

RECURSIVE RStrip(_)
RStrip(s) ==
    IF s # <<>> /\ IsSpace(s[Len(s)]) THEN RStrip(SubSeq(s, 1, Len(s) - 1)) ELSE s

\* str.strip()
Strip(s) == RStrip(LStrip(s))

\* str.startswith(p)
StartsWith(s, p) == Len(s) >= Len(p) /\ SubSeq(s, 1, Len(p)) = p

\* `sub in s`
Contains(s, sub) ==
    \E i \in 1..(Len(s) + 1) :
        i + Len(sub) - 1 <= Len(s) /\ SubSeq(s, i, i + Len(sub) - 1) = sub

\* str.replace(old, ""): every non-overlapping occurrence, left to right
RECURSIVE RemoveAll(_, _)
RemoveAll(s, old) ==
    IF s = <<>> THEN <<>>
    ELSE IF StartsWith(s, old)
         THEN RemoveAll(SubSeq(s, Len(old) + 1, Len(s)), old)
         ELSE <<Head(s)>> \o RemoveAll(Tail(s), old)

\* str.split(sep) for a one-character sep: always at least one part
RECURSIVE Split(_, _)
Split(s, sep) ==
    IF \E i \in 1..Len(s) : s[i] = sep
    THEN LET i == CHOOSE k \in 1..Len(s) :
                      s[k] = sep /\ \A j \in 1..(k - 1) : s[j] # sep
         IN  <<SubSeq(s, 1, i - 1)>> \o Split(SubSeq(s, i + 1, Len(s)), sep)
    ELSE <<s>>

\* str.isdigit()
IsDigit(s) == s # <<>> /\ \A i \in 1..Len(s) : IsDigitCh(s[i])

RECURSIVE DigitsValue(_)
DigitsValue(s) ==
    IF s = <<>> THEN 0
    ELSE 10 * DigitsValue(SubSeq(s, 1, Len(s) - 1)) + DigitVal(s[Len(s)])

\* The index of the first `ch` in s, or Len(s) + 1.
FirstIndex(s, ch) ==
    IF \E i \in 1..Len(s) : s[i] = ch
    THEN CHOOSE i \in 1..Len(s) : s[i] = ch /\ \A j \in 1..(i - 1) : s[j] # ch
    ELSE Len(s) + 1

Signed(neg, n) == IF neg THEN 0 - n ELSE n

IntOfBody(neg, body) ==
    IF IsDigit(body) THEN [ok |-> TRUE, v |-> Signed(neg, DigitsValue(body))]
    ELSE [ok |-> FALSE, v |-> 0]

IntOfStripped(t) ==
    IF t # <<>> /\ Head(t) \in {"+", "-"}
    THEN IntOfBody(Head(t) = "-", Tail(t))
    ELSE IntOfBody(FALSE, t)

\* int(tok): surrounding whitespace, an optional sign, decimal digits.
\* ok = FALSE stands for ValueError.
ParseInt(tok) == IntOfStripped(Strip(tok))

\* A float is m * 10^e with m not a multiple of 10 (0 is m = 0, e = 0), or
\* one of the special values float() also accepts.
RECURSIVE NormFloat(_, _)
NormFloat(m, e) ==
    IF m = 0 THEN [kind |-> "num", m |-> 0, e |-> 0]
    ELSE IF m % 10 = 0 THEN NormFloat(m \div 10, e + 1)
    ELSE [kind |-> "num", m |-> m, e |-> e]

AllDigits(s) == \A i \in 1..Len(s) : IsDigitCh(s[i])

NotAFloat == [ok |-> FALSE, v |-> [kind |-> "nan", m |-> 0, e |-> 0]]

\* The exponent after E: an integer with no whitespace around it.
ExpOfText(expo) ==
    IF expo = Strip(expo) THEN IntOfStripped(expo) ELSE [ok |-> FALSE, v |-> 0]

\* integer part, fraction part and exponent
FloatOfParts(neg, ip, fp, ex) ==
    IF AllDigits(ip) /\ AllDigits(fp) /\ (ip # <<>> \/ fp # <<>>) /\ ex.ok
    THEN [ok |-> TRUE,
          v |-> NormFloat(Signed(neg, DigitsValue(ip \o fp)), ex.v - Len(fp))]
    ELSE NotAFloat

FloatOfMantissa(neg, mant, dPos, ex) ==
    FloatOfParts(neg, SubSeq(mant, 1, dPos - 1),
                 SubSeq(mant, dPos + 1, Len(mant)), ex)

FloatOfDecimal(neg, body, ePos) ==
    FloatOfMantissa(neg, SubSeq(body, 1, ePos - 1),
                    FirstIndex(SubSeq(body, 1, ePos - 1), "."),
                    IF ePos <= Len(body)
                    THEN ExpOfText(SubSeq(body, ePos + 1, Len(body)))
                    ELSE [ok |-> TRUE, v |-> 0])

FloatOfBody(neg, body) ==
    IF body \in {<<"I","N","F">>, <<"I","N","F","I","N","I","T","Y">>}
    THEN [ok |-> TRUE,
          v |-> [kind |-> IF neg THEN "-inf" ELSE "inf", m |-> 0, e |-> 0]]
    ELSE IF body = <<"N","A","N">>
    THEN [ok |-> TRUE, v |-> [kind |-> "nan", m |-> 0, e |-> 0]]
    ELSE FloatOfDecimal(neg, body, FirstIndex(body, "E"))

FloatOfStripped(t) ==
    IF t # <<>> /\ Head(t) \in {"+", "-"}
    THEN FloatOfBody(Head(t) = "-", Tail(t))
    ELSE FloatOfBody(FALSE, t)

\* float(tok) for an uppercased token:
\* [sign] digits [. digits] [E [sign] digits] | [sign] INF | INFINITY | NAN.
\* ok = FALSE stands for ValueError.
ParseFloat(tok) == FloatOfStripped(Strip(tok))

\* ------------------------------------------------------ const.py

CMD ==
    [GET_TEMP_SCALE |-> <<"R","T","S","1">>,
     GET_ALL_STATES |-> <<"R","A","S","1">>,
     GET_HUMIDITY |-> <<"R","R","H","S","1">>,
     GET_OPERATION_MODE |-> <<"R","N","S","1">>,
     GET_RELAY_MODE |-> <<"R","M","R","F","1">>,
     GET_HUMIDIFICATION |-> <<"R","M","H","S","1">>,
     GET_DEHUMIDIFICATION |-> <<"R","M","D","H","S","1">>,
     GET_RELAY_STATE |-> <<"R","R","S","1">>,
     SET_MODE_MANUAL |-> <<"W","N","M","S","1","D">>,
     SET_FAN_MANUAL |-> <<"W","N","F","M","1","D">>,
     SET_COOL_MANUAL |-> <<"W","N","C","D","1","D">>,
     SET_HEAT_MANUAL |-> <<"W","N","H","D","1","D">>,
     SET_MODE_SCHEDULE |-> <<"W","M","S","1","D">>,
     SET_FAN_SCHEDULE |-> <<"W","F","M","1","D">>,
     SET_COOL_SCHEDULE |-> <<"W","O","C","1","D">>,
     SET_HEAT_SCHEDULE |-> <<"W","O","H","1","D">>,
     SET_TEMP_SCALE |-> <<"W","T","S","1","D">>,
     SET_RELAY_MODE |-> <<"W","M","R","F","1","D">>,
     SET_HUMIDIFICATION |-> <<"W","M","H","S","1","D">>,
     SET_DEHUMIDIFICATION |-> <<"W","M","D","H","S","1","D">>]
OPERATION_MODE_MANUAL == <<"O","N">>
RESP ==
    [LOGIN_OK |-> <<"O","K">>,
     TEMP_SCALE |-> <<"R","T","S","1",":">>,
     ALL_STATES |-> <<"R","A","S","1",":">>,
     HUMIDITY |-> <<"R","R","H","S","1",":">>,
     OPERATION_MODE |-> <<"R","N","S","1",":">>,
     RELAY_MODE |-> <<"R","M","R","F","1",":">>,
     HUMIDIFICATION |-> <<"R","M","H","S","1",":">>,
     DEHUMIDIFICATION |-> <<"R","M","D","H","S","1",":">>,
     RELAY_STATE |-> <<"R","R","S","1",":">>]

\* string literals of api.py
Lit ==
    [FAHRENHEIT |-> <<"F","A","H","R","E","N","H","E","I","T">>,
     F |-> <<"F">>,
     C |-> <<"C">>,
     ON |-> <<"O","N">>,
     AUTO |-> <<"A","U","T","O">>,
     OFF |-> <<"O","F","F">>,
     HEAT |-> <<"H","E","A","T">>,
     COOL |-> <<"C","O","O","L">>,
     HUM |-> <<"H","U","M">>,
     DEHUM |-> <<"D","E","H","U","M">>,
     YES |-> <<"Y","E","S">>,
     Y |-> <<"Y">>,
     True |-> <<"T","R","U","E">>,
     NONE |-> <<"N","O","N","E">>,
     NA |-> <<"N","A">>,
     Manual |-> <<"M","a","n","u","a","l">>,
     Schedule |-> <<"S","c","h","e","d","u","l","e">>,
     IH |-> <<"I","H">>,
     WH |-> <<"W","H">>,
     IC |-> <<"I","C">>,
     WC |-> <<"W","C">>,
     One |-> <<"1">>,
     DASHES |-> <<"-","-">>,
     N_A |-> <<"N","/","A">>,
     EMPTY |-> <<>>]
COMMA == ","
COLON == ":"

\* ------------------------------------------- NetXThermostatState

\* The dataclass defaults.
NetXThermostatState ==
    [indoor_temp |-> None, outdoor_temp |-> None, hvac_mode |-> None,
     fan_mode |-> None, override_active |-> FALSE, recovery_active |-> FALSE,
     cool_setpoint |-> None, heat_setpoint |-> None, operating_status |-> None,
     stage |-> None, event |-> None,
     humidity |-> None, temp_scale |-> Lit.F, is_manual_mode |-> TRUE,
     operation_mode |-> Lit.Manual,
     relay1_mode |-> None, relay2_mode |-> None, relay_state |-> None,
     hum_control_mode |-> None, hum_setpoint |-> None, hum_variance |-> None,
     dehum_control_mode |-> None, dehum_setpoint |-> None,
     dehum_variance |-> None,
     connected |-> FALSE, last_error |-> None]

\* The fields that hold device data: all but the connection status.
DataFields == (DOMAIN NetXThermostatState) \ {"connected", "last_error"}
Data(st) == [f \in DataFields |-> st[f]]

\* ------------------------------------------------------- parsers
\* Each parser is a function from the snapshot and the payload to the
\* snapshot; `raised` tells whether an exception leaves the parser.

\* int(tok) when it parses, else `other`
IntOr(r, other) == IF r.ok THEN Some(r.v) ELSE other

FloatOrNone(f) == IF f.ok THEN Some(f.v) ELSE None

TempOfToken(t) ==
    IF t \in {Lit.NA, Lit.DASHES, Lit.EMPTY, Lit.N_A} THEN None
    ELSE FloatOrNone(ParseFloat(t))

\* _parse_temp
parse_temp(temp_str) == TempOfToken(Upper(Strip(temp_str)))

TruthTokens == {Lit.YES, Lit.Y, Lit.True, Lit.One}

\* A fan mode that is ON only for the token ON itself.
FanOfTokenExact(fan_str) == IF fan_str = Lit.ON THEN Lit.ON ELSE Lit.AUTO

FanOfToken(fan_str) == IF Contains(fan_str, Lit.ON) THEN Lit.ON ELSE Lit.AUTO

EventOfToken(event) == IF Upper(event) # Lit.NONE THEN Some(event) ELSE None

\* the assignments of _parse_all_states, for at least 11 parts
AllStatesFields(st, parts) ==
    [st EXCEPT
        !.indoor_temp = parse_temp(parts[1]),
        !.outdoor_temp = parse_temp(parts[2]),
        !.hvac_mode = Some(Upper(Strip(parts[3]))),
        !.fan_mode = Some(FanOfToken(Upper(Strip(parts[4])))),
        !.override_active = Upper(Strip(parts[5])) \in TruthTokens,
        !.recovery_active = Upper(Strip(parts[6])) \in TruthTokens,
        !.cool_setpoint = IntOr(ParseInt(Strip(parts[7])), @),
        !.heat_setpoint = IntOr(ParseInt(Strip(parts[8])), @),
        !.operating_status = Some(Upper(Strip(parts[9]))),
        !.stage = IntOr(ParseInt(Strip(parts[10])), None),
        !.event = EventOfToken(Strip(parts[11]))]

\* A merge that applies the leading fields of a short record.
AllStatesOfPartsPartial(st, parts) ==
    IF Len(parts) >= 11 THEN AllStatesFields(st, parts)
    ELSE IF Len(parts) >= 3
    THEN [st EXCEPT !.indoor_temp = parse_temp(parts[1]),
                    !.outdoor_temp = parse_temp(parts[2]),
                    !.hvac_mode = Some(Upper(Strip(parts[3])))]
    ELSE st

AllStatesOfParts(st, parts) ==
    IF Len(parts) >= 11 THEN AllStatesFields(st, parts) ELSE st

\* _parse_all_states
parse_all_states(st, data) ==
    [st |-> AllStatesOfParts(st, Split(data, COMMA)), raised |-> FALSE]

RelayModeOfParts(st, parts) ==
    IF Len(parts) >= 2
    THEN [st EXCEPT !.relay1_mode = Some(Upper(Strip(parts[1]))),
                    !.relay2_mode = Some(Upper(Strip(parts[2])))]
    ELSE IF Len(parts) = 1
    THEN [st EXCEPT !.relay1_mode = Some(Upper(Strip(parts[1])))]
    ELSE st

\* _parse_relay_mode
parse_relay_mode(st, data) ==
    [st |-> RelayModeOfParts(st, Split(data, COMMA)), raised |-> FALSE]

\* The three assignments of _parse_humidification run in order; the first
\* int() that raises ends them, inside the parser's try block.
HumidificationFields(st, mode, sp, var) ==
    IF ~sp.ok THEN [st EXCEPT !.hum_control_mode = Some(mode)]
    ELSE IF ~var.ok
    THEN [st EXCEPT !.hum_control_mode = Some(mode),
                    !.hum_setpoint = Some(sp.v)]
    ELSE [st EXCEPT !.hum_control_mode = Some(mode),
                    !.hum_setpoint = Some(sp.v),
                    !.hum_variance = Some(var.v)]

HumidificationOfParts(st, parts) ==
    IF Len(parts) >= 3
    THEN HumidificationFields(st, Upper(Strip(parts[1])),
                              ParseInt(Strip(parts[2])),
                              ParseInt(Strip(parts[3])))
    ELSE st

\* A parser whose int() failures escape it.
parse_humidification_raising(st, data) ==
    [st |-> HumidificationOfParts(st, Split(data, COMMA)),
     raised |-> Len(Split(data, COMMA)) >= 3
                /\ ~(ParseInt(Strip(Split(data, COMMA)[2])).ok
                     /\ ParseInt(Strip(Split(data, COMMA)[3])).ok)]

\* _parse_humidification
parse_humidification(st, data) ==
    [st |-> HumidificationOfParts(st, Split(data, COMMA)), raised |-> FALSE]

DehumidificationFields(st, mode, sp, var) ==
    IF ~sp.ok THEN [st EXCEPT !.dehum_control_mode = Some(mode)]
    ELSE IF ~var.ok
    THEN [st EXCEPT !.dehum_control_mode = Some(mode),
                    !.dehum_setpoint = Some(sp.v)]
    ELSE [st EXCEPT !.dehum_control_mode = Some(mode),
                    !.dehum_setpoint = Some(sp.v),
                    !.dehum_variance = Some(var.v)]

DehumidificationOfParts(st, parts) ==
    IF Len(parts) >= 3
    THEN DehumidificationFields(st, Upper(Strip(parts[1])),
                                ParseInt(Strip(parts[2])),
                                ParseInt(Strip(parts[3])))
    ELSE st

\* _parse_dehumidification
parse_dehumidification(st, data) ==
    [st |-> DehumidificationOfParts(st, Split(data, COMMA)), raised |-> FALSE]

\* ------------------------------------------- async_update, per read
\* A response is None (the command failed) or Some(line).  Python's
\* `if response and response.startswith(P)` needs a non-empty line.

Accepts(response, prefix) ==
    response # None /\ Val(response) # <<>> /\ StartsWith(Val(response), prefix)

Payload(response, prefix) == RemoveAll(Val(response), prefix)

NoRaise(st) == [st |-> st, raised |-> FALSE]

ScaleOfText(scale) == IF Contains(Upper(scale), Lit.FAHRENHEIT) THEN Lit.F ELSE Lit.C

\* A merge that takes any non-empty response for the scale.
merge_temp_scale_any(st, response) ==
    IF response # None /\ Val(response) # <<>>
    THEN NoRaise([st EXCEPT !.temp_scale =
                     ScaleOfText(Strip(Payload(response, RESP.TEMP_SCALE)))])
    ELSE NoRaise(st)

\* RTS1
merge_temp_scale(st, response) ==
    IF Accepts(response, RESP.TEMP_SCALE)
    THEN NoRaise([st EXCEPT !.temp_scale =
                     ScaleOfText(Strip(Payload(response, RESP.TEMP_SCALE)))])
    ELSE NoRaise(st)

\* RAS1
merge_all_states(st, response) ==
    IF Accepts(response, RESP.ALL_STATES)
    THEN parse_all_states(st, Payload(response, RESP.ALL_STATES))
    ELSE NoRaise(st)

HumidityOfText(humidity_str) ==
    IF IsDigit(humidity_str) THEN Some(DigitsValue(humidity_str)) ELSE None

\* RRHS1
merge_humidity(st, response) ==
    IF Accepts(response, RESP.HUMIDITY)
    THEN NoRaise([st EXCEPT !.humidity =
                     HumidityOfText(Strip(Payload(response, RESP.HUMIDITY)))])
    ELSE NoRaise(st)

OperationModeFields(st, manual) ==
    [st EXCEPT !.is_manual_mode = manual,
               !.operation_mode = IF manual THEN Lit.Manual ELSE Lit.Schedule]

\* RNS1
merge_operation_mode(st, response) ==
    IF Accepts(response, RESP.OPERATION_MODE)
    THEN NoRaise(OperationModeFields(st,
             Strip(Payload(response, RESP.OPERATION_MODE))
                 = OPERATION_MODE_MANUAL))
    ELSE NoRaise(st)

\* RMRF1
merge_relay_mode(st, response) ==
    IF Accepts(response, RESP.RELAY_MODE)
    THEN parse_relay_mode(st, Payload(response, RESP.RELAY_MODE))
    ELSE NoRaise(st)

\* RMHS1
merge_humidification(st, response) ==
    IF Accepts(response, RESP.HUMIDIFICATION)
    THEN parse_humidification(st, Payload(response, RESP.HUMIDIFICATION))
    ELSE NoRaise(st)

\* RMDHS1
merge_dehumidification(st, response) ==
    IF Accepts(response, RESP.DEHUMIDIFICATION)
    THEN parse_dehumidification(st, Payload(response, RESP.DEHUMIDIFICATION))
    ELSE NoRaise(st)

\* RRS1
merge_relay_state(st, response) ==
    IF Accepts(response, RESP.RELAY_STATE)
    THEN NoRaise([st EXCEPT !.relay_state =
                     Some(Strip(Payload(response, RESP.RELAY_STATE)))])
    ELSE NoRaise(st)

\* The eight reads of async_update, in the order it issues them.
ReadCommands ==
    <<CMD.GET_TEMP_SCALE, CMD.GET_ALL_STATES, CMD.GET_HUMIDITY,
      CMD.GET_OPERATION_MODE, CMD.GET_RELAY_MODE, CMD.GET_HUMIDIFICATION,
      CMD.GET_DEHUMIDIFICATION, CMD.GET_RELAY_STATE>>

ReadPrefixes ==
    <<RESP.TEMP_SCALE, RESP.ALL_STATES, RESP.HUMIDITY, RESP.OPERATION_MODE,
      RESP.RELAY_MODE, RESP.HUMIDIFICATION, RESP.DEHUMIDIFICATION,
      RESP.RELAY_STATE>>

NumReads == Len(ReadCommands)

\* What async_update does with the response to its k-th read.
MergeRead(k, st, response) ==
    CASE k = 1 -> merge_temp_scale(st, response)
      [] k = 2 -> merge_all_states(st, response)
      [] k = 3 -> merge_humidity(st, response)
      [] k = 4 -> merge_operation_mode(st, response)
      [] k = 5 -> merge_relay_mode(st, response)
      [] k = 6 -> merge_humidification(st, response)
      [] k = 7 -> merge_dehumidification(st, response)
      [] OTHER -> merge_relay_state(st, response)

\* The snapshot fields each read owns.
GroupFields ==
    <<{"temp_scale"},
      {"indoor_temp", "outdoor_temp", "hvac_mode", "fan_mode", "override_active",
       "recovery_active", "cool_setpoint", "heat_setpoint", "operating_status",
       "stage", "event"},
      {"humidity"},
      {"is_manual_mode", "operation_mode"},
      {"relay1_mode", "relay2_mode"},
      {"hum_control_mode", "hum_setpoint", "hum_variance"},
      {"dehum_control_mode", "dehum_setpoint", "dehum_variance"},
      {"relay_state"}>>

\* ------------------------------------------------------------ state

Callers == {"poll", "user"}
NoTask == "none"

VARIABLES
    authenticated,  \* self._authenticated
    writer,         \* self._writer: None or Some("stream")
    reader,         \* self._reader
    locked,         \* self._lock: asyncio.Lock._locked
    waiters,        \* self._lock: the queue of tasks waiting for the lock
    woken,          \* the waiters whose future release() has resolved
    state,          \* self.state, the snapshot
    pc,             \* where each caller's coroutine stands
    current,        \* the task the event loop is running, or NoTask
    task,           \* each caller's call frame: operation, locals, results
    stream,         \* history of the stream last opened: which exchange
                    \* failed on it, was it opened after a command
                    \* had failed on an earlier one, how many lines
                    \* written on it still await the end of their read,
                    \* and how many streams are open (opened, and
                    \* close() not yet called on them)
    lastEvent,      \* history: the last connection-level event
    hist,           \* history of each caller's current call
    coordinator,    \* the HTTP coordinator: the data its readers see and
                    \* whether its last refresh succeeded
    fetched,        \* history: what the last HTTP poll cycle fetched, the
                    \* data before it, and how it ended
    thermostat,     \* the device's dehumidification settings, as its
                    \* confighumidity page shows them
    entities        \* where the write of each number or switch entity
                    \* stands

vars == <<authenticated, writer, reader, locked, waiters, woken, state, pc,
          current, task, stream, lastEvent, hist, coordinator, fetched,
          thermostat, entities>>

client == <<authenticated, writer, reader, state, stream, lastEvent>>
lock == <<locked, waiters, woken>>
http == <<coordinator, fetched, thermostat, entities>>
form == <<thermostat, entities>>

\* The entities that write the dehumidification group of
\* confighumidity.htm, and the form field each one sets.
FormField ==
    [dehum_setpoint |-> "spdehum", dehum_variance |-> "spvdehum",
     dehum_independent |-> "dehum"]
Entities == DOMAIN FormField

\* A dict with string keys is a function from its keys to optional texts
\* (None is Python's None); dict.get(key) and dict.update(e).
EmptyDict == [k \in {} |-> None]
Get(d, key) == IF key \in DOMAIN d THEN d[key] ELSE None
Updated(d, e) ==
    [k \in DOMAIN d \cup DOMAIN e |-> IF k \in DOMAIN e THEN e[k] ELSE d[k]]

\* What one GET gave: status is the HTTP status, or the exception that
\* session.get() or the reading of the body raised ("ClientError" is
\* aiohttp.ClientError, "TimeoutError" the asyncio.TimeoutError that
\* ClientTimeout(total=10) raises); body is the document, already
\* classified by what the parser makes of it, with its items.
Response(status, kind, items) ==
    [status |-> status, body |-> [kind |-> kind, items |-> items]]
NotFetched == Response("none", "none", EmptyDict)

\* The frame of _async_update_data between two poll cycles, and the
\* record of the cycle: variant is the revision of the coordinator that
\* runs ("coordinator" is coordinator.py, "climate" is climate.py), before
\* is coordinator.data when the cycle started, index .. schedule are the
\* responses, data is the local dict, result is "data" when the cycle
\* returned it and the name of the exception when it raised.
IdleCycle ==
    [variant |-> "none", step |-> "idle", before |-> None,
     index |-> NotFetched, co2 |-> NotFetched, humidity |-> NotFetched,
     schedule |-> NotFetched, xml_text |-> NotFetched.body,
     data |-> EmptyDict, result |-> "none"]

\* A caller's frame between calls (call: the index in WriteCalls of the
\* write being made).
IdleTask ==
    [op |-> "none", nested |-> FALSE, command |-> <<>>, expected |-> None,
     response |-> None, cret |-> FALSE, login_response |-> None,
     idx |-> 0, call |-> 0, args |-> <<>>, ret |-> "-"]

\* History of one call: connect() calls and command writes of the current
\* _send_command (connects, wrote, unauthAtIssue) and, of an update cycle,
\* whether the first read's connect failed and whether every read so far
\* got a response line.
IdleHist ==
    [connects |-> 0, wrote |-> FALSE, unauthAtIssue |-> FALSE,
     firstConnectFailed |-> FALSE, allLines |-> TRUE, merges |-> 0,
     eof |-> FALSE]

Init ==
    /\ authenticated = FALSE
    /\ writer = None
    /\ reader = None
    /\ locked = FALSE
    /\ waiters = <<>>
    /\ woken = {}
    /\ state = NetXThermostatState
    /\ pc = [c \in Callers |-> "idle"]
    /\ current = NoTask
    /\ task = [c \in Callers |-> IdleTask]
    /\ stream = [failed |-> "no", afterFailure |-> FALSE, outstanding |-> 0,
                 open |-> 0]
    /\ lastEvent = "none"
    /\ hist = [c \in Callers |-> IdleHist]
    /\ coordinator = [data |-> None, last_update_success |-> TRUE]
    /\ fetched = IdleCycle
    /\ thermostat = [dehum |-> 0, spdehum |-> 55, spvdehum |-> 5]
    /\ entities = [e \in Entities |-> "idle"]

\* -------------------------------------------------------- asyncio.Lock

\* Lock.acquire() returns at once iff the lock is free and nobody waits.
CanAcquire == ~locked /\ waiters = <<>>

\* Lock.release(): free the lock and resolve the first waiter's future.
WokenAfterRelease == IF waiters # <<>> THEN woken \cup {Head(waiters)} ELSE woken

RECURSIVE Without(_, _)
Without(q, c) ==
    IF q = <<>> THEN <<>>
    ELSE IF Head(q) = c THEN Tail(q) ELSE <<Head(q)>> \o Without(Tail(q), c)

\* `async with self._lock` at label `at`: enter `to`, or queue at `wait`.
Acquire(c, to, wait) ==
    IF CanAcquire
    THEN /\ locked' = TRUE
         /\ pc' = [pc EXCEPT ![c] = to]
         /\ UNCHANGED <<waiters, woken, current>>
    ELSE /\ waiters' = Append(waiters, c)
         /\ pc' = [pc EXCEPT ![c] = wait]
         /\ current' = NoTask
         /\ UNCHANGED <<locked, woken>>

LockWaits == {"c_lockwait", "s_lockwait", "d_lockwait"}

AfterWait(p) ==
    CASE p = "c_lockwait" -> "c_locked"
      [] p = "s_lockwait" -> "s_locked"
      [] OTHER -> "d_locked"

\* The event loop resumes a waiter whose future release() resolved.
LockGranted(c) ==
    /\ current = NoTask
    /\ pc[c] \in LockWaits
    /\ c \in woken
    /\ waiters' = Without(waiters, c)
    /\ woken' = woken \ {c}
    /\ locked' = TRUE
    /\ current' = c
    /\ pc' = [pc EXCEPT ![c] = AfterWait(pc[c])]
    /\ UNCHANGED <<client, task, hist>>
    /\ UNCHANGED http

\* ------------------------------------------------------------ connect

ERR_TIMEOUT == <<"Connection timeout">>
ErrConnectionFailed(err) == <<"Connection failed: ", err>>
ErrAuthFailed(response_str) == <<"Authentication failed: ">> \o response_str

\* A login check that looks for OK anywhere in the response.
LoginAcceptedAnywhere(response_str) == Contains(response_str, RESP.LOGIN_OK)

\* `if response_str.startswith(RESP.LOGIN_OK)`
LoginAccepted(response_str) == StartsWith(response_str, RESP.LOGIN_OK)

\* connect() is entered: `async with self._lock`.
ConnectEnter(c) ==
    /\ current = c
    /\ pc[c] = "c_enter"
    /\ hist' = [hist EXCEPT ![c].connects = @ + 1]
    /\ task' = [task EXCEPT ![c].cret = FALSE, ![c].login_response = None]
    /\ Acquire(c, "c_locked", "c_lockwait")
    /\ UNCHANGED client
    /\ UNCHANGED http

\* A connect() that drops the handles it finds without closing the stream.
ConnectLockedNoClose(c) ==
    /\ current = c
    /\ pc[c] = "c_locked"
    /\ pc' = [pc EXCEPT ![c] = "c_open"]
    /\ reader' = None
    /\ writer' = None
    /\ authenticated' = FALSE
    /\ current' = NoTask
    /\ UNCHANGED <<lock, state, stream, lastEvent, task, hist>>
    /\ UNCHANGED http

\* _close_connection_locked() up to its await (close() is called on the
\* writer it finds), then the rest of it when there is no writer to wait
\* for, and `await open_connection`.
ConnectLocked(c) ==
    /\ current = c
    /\ pc[c] = "c_locked"
    /\ IF writer # None
       THEN /\ pc' = [pc EXCEPT ![c] = "c_close"]
            /\ stream' = [stream EXCEPT !.open = @ - 1]
            /\ UNCHANGED <<authenticated, writer, reader>>
       ELSE /\ pc' = [pc EXCEPT ![c] = "c_open"]
            /\ reader' = None
            /\ writer' = None
            /\ authenticated' = FALSE
            /\ UNCHANGED stream
    /\ current' = NoTask
    /\ UNCHANGED <<lock, state, lastEvent, task, hist>>
    /\ UNCHANGED http

\* wait_closed() is over (an exception from it is swallowed): the handles
\* and the flag are cleared, and the task waits for open_connection.
CloseDone(c) ==
    /\ current = NoTask
    /\ pc[c] = "c_close"
    /\ reader' = None
    /\ writer' = None
    /\ authenticated' = FALSE
    /\ pc' = [pc EXCEPT ![c] = "c_open"]
    /\ UNCHANGED <<lock, state, stream, lastEvent, current, task, hist>>
    /\ UNCHANGED http

\* History of a connect() that ends: did the connect made for the first
\* read of an update cycle fail.
HistConnectEnds(c, ok) ==
    [hist EXCEPT ![c].firstConnectFailed =
        @ \/ (~ok /\ task[c].op = "update" /\ task[c].idx = 1)]

\* connect() leaves its `async with` by an exception: the lock is released
\* and the handler records the error.
ConnectFails(c, err) ==
    /\ locked' = FALSE
    /\ woken' = WokenAfterRelease
    /\ state' = [state EXCEPT !.connected = FALSE, !.last_error = Some(err)]
    /\ lastEvent' = "connect_fail"
    /\ task' = [task EXCEPT ![c].cret = FALSE]
    /\ hist' = HistConnectEnds(c, FALSE)
    /\ pc' = [pc EXCEPT ![c] = "c_ret"]
    /\ current' = c
    /\ UNCHANGED <<authenticated, waiters>>

OpenOutcomes == {"ok", "timeout", "oserror"}

\* open_connection is over: the stream is open and the login line is
\* written (the task then waits for the response), or the wait timed out,
\* or the connection was refused.
OpenDone(c) ==
    /\ current = NoTask
    /\ pc[c] = "c_open"
    /\ \E outcome \in OpenOutcomes :
        CASE outcome = "ok" ->
                /\ reader' = Some("stream")
                /\ writer' = Some("stream")
                /\ stream' = [failed |-> "no",
                              afterFailure |-> stream.afterFailure
                                                 \/ stream.failed = "command",
                              outstanding |-> 1,
                              open |-> stream.open + 1]
                /\ pc' = [pc EXCEPT ![c] = "c_read"]
                /\ UNCHANGED <<authenticated, lock, state, lastEvent, current,
                               task, hist>>
          [] outcome = "timeout" ->
                /\ ConnectFails(c, ERR_TIMEOUT)
                /\ UNCHANGED <<reader, writer, stream>>
          [] OTHER ->
                /\ ConnectFails(c, ErrConnectionFailed("OSError"))
                /\ UNCHANGED <<reader, writer, stream>>
    /\ UNCHANGED http

\* The login response: a line, or (as text) the way the wait ended.
LoginFailures == {"timeout", "oserror", "exception"}

\* The login exchange is over: drain() and readline() gave a line, or one
\* of them raised.
LoginDone(c, lines) ==
    /\ current = NoTask
    /\ pc[c] = "c_read"
    /\ \/ \E line \in lines :
            LET response_str == Strip(line) IN
            /\ authenticated' = LoginAccepted(response_str)
            /\ state' = IF LoginAccepted(response_str)
                        THEN [state EXCEPT !.connected = TRUE,
                                           !.last_error = None]
                        ELSE [state EXCEPT !.connected = FALSE,
                                           !.last_error =
                                               Some(ErrAuthFailed(response_str))]
            /\ lastEvent' = IF LoginAccepted(response_str) THEN "login_ok"
                            ELSE "connect_fail"
            /\ task' = [task EXCEPT ![c].cret = LoginAccepted(response_str),
                                    ![c].login_response = Some(response_str)]
            /\ hist' = HistConnectEnds(c, LoginAccepted(response_str))
            /\ locked' = FALSE
            /\ woken' = WokenAfterRelease
            /\ pc' = [pc EXCEPT ![c] = "c_ret"]
            /\ current' = c
            /\ stream' = [stream EXCEPT !.outstanding = 0]
            /\ UNCHANGED <<waiters, reader, writer>>
       \/ \E failure \in LoginFailures :
            /\ ConnectFails(c, CASE failure = "timeout" -> ERR_TIMEOUT
                                 [] failure = "oserror" ->
                                        ErrConnectionFailed("OSError")
                                 [] OTHER -> <<"Exception">>)
            /\ stream' = [stream EXCEPT !.failed = "login", !.outstanding = 0]
            /\ UNCHANGED <<reader, writer>>
    /\ UNCHANGED http

\* A _send_command that goes on whatever connect() returned.
SendAfterConnectAlways(connected_ok) == "s_acquire"

\* `if not await self.connect(): return None` of _send_command
SendAfterConnect(connected_ok) ==
    IF connected_ok THEN "s_acquire" ELSE "s_ret"

\* connect() returns to its caller: the client's user, test_connection()
\* or _send_command() (whose response is still None).
ConnectReturn(c) ==
    /\ current = c
    /\ pc[c] = "c_ret"
    /\ IF task[c].nested
       THEN /\ pc' = [pc EXCEPT ![c] = SendAfterConnect(task[c].cret)]
            /\ task' = task
       ELSE IF task[c].op = "test" /\ task[c].cret
            THEN /\ pc' = [pc EXCEPT ![c] = "s_enter"]
                 /\ task' = [task EXCEPT ![c].command = CMD.GET_TEMP_SCALE]
            ELSE /\ pc' = [pc EXCEPT ![c] = "ret"]
                 /\ task' = [task EXCEPT ![c].ret =
                                 IF task[c].cret THEN "True" ELSE "False"]
    /\ UNCHANGED <<client, lock, current, hist>>
    /\ UNCHANGED http

\* --------------------------------------------------------- disconnect

DisconnectEnter(c) ==
    /\ current = c
    /\ pc[c] = "d_enter"
    /\ Acquire(c, "d_locked", "d_lockwait")
    /\ UNCHANGED <<client, task, hist>>
    /\ UNCHANGED http

\* A disconnect() that leaves the snapshot's connected flag alone.
DisconnectFinishKeepsConnected(c) ==
    /\ reader' = None
    /\ writer' = None
    /\ authenticated' = FALSE
    /\ state' = state
    /\ lastEvent' = "disconnect"
    /\ locked' = FALSE
    /\ woken' = WokenAfterRelease
    /\ pc' = [pc EXCEPT ![c] = "ret"]
    /\ task' = [task EXCEPT ![c].ret = "None"]
    /\ current' = c
    /\ UNCHANGED <<waiters, stream, hist>>

\* The end of disconnect(): handles and flag cleared, connected = False,
\* lock released.
DisconnectFinish(c) ==
    /\ reader' = None
    /\ writer' = None
    /\ authenticated' = FALSE
    /\ state' = [state EXCEPT !.connected = FALSE]
    /\ lastEvent' = "disconnect"
    /\ locked' = FALSE
    /\ woken' = WokenAfterRelease
    /\ pc' = [pc EXCEPT ![c] = "ret"]
    /\ task' = [task EXCEPT ![c].ret = "None"]
    /\ current' = c
    /\ UNCHANGED <<waiters, stream, hist>>

DisconnectLocked(c) ==
    /\ current = c
    /\ pc[c] = "d_locked"
    /\ IF writer # None
       THEN /\ pc' = [pc EXCEPT ![c] = "d_close"]
            /\ current' = NoTask
            /\ stream' = [stream EXCEPT !.open = @ - 1]
            /\ UNCHANGED <<authenticated, writer, reader, state, lastEvent,
                           lock, task, hist>>
       ELSE DisconnectFinish(c)
    /\ UNCHANGED http

\* wait_closed() is over inside disconnect().
DisconnectCloseDone(c) ==
    /\ current = NoTask
    /\ pc[c] = "d_close"
    /\ DisconnectFinish(c)
    /\ UNCHANGED http

\* ------------------------------------------------------ _send_command

\* A _send_command that never reconnects.
NeedsConnectNever == FALSE

\* `if not self._authenticated:` at the head of _send_command
NeedsConnect == ~authenticated

\* _send_command is entered: connect() first when not authenticated.
SendEnter(c) ==
    /\ current = c
    /\ pc[c] = "s_enter"
    /\ hist' = [hist EXCEPT ![c].connects = 0, ![c].wrote = FALSE,
                            ![c].unauthAtIssue = ~authenticated,
                            ![c].eof = FALSE]
    /\ task' = [task EXCEPT ![c].nested = NeedsConnect,
                            ![c].response = None]
    /\ pc' = [pc EXCEPT ![c] = IF NeedsConnect THEN "c_enter" ELSE "s_acquire"]
    /\ UNCHANGED <<client, lock, current>>
    /\ UNCHANGED http

\* A _send_command that does not take the lock.
SendAcquireUnlocked(c) ==
    /\ current = c
    /\ pc[c] = "s_acquire"
    /\ pc' = [pc EXCEPT ![c] = "s_locked"]
    /\ UNCHANGED <<client, lock, current, task, hist>>
    /\ UNCHANGED http

\* `async with self._lock` of _send_command
SendAcquire(c) ==
    /\ current = c
    /\ pc[c] = "s_acquire"
    /\ Acquire(c, "s_locked", "s_lockwait")
    /\ UNCHANGED <<client, task, hist>>
    /\ UNCHANGED http

\* A _send_command that holds the lock for the write only.
SendLockedWriteOnly(c) ==
    /\ current = c
    /\ pc[c] = "s_locked"
    /\ locked' = FALSE
    /\ woken' = WokenAfterRelease
    /\ IF writer = None \/ reader = None
       THEN /\ task' = [task EXCEPT ![c].response = None]
            /\ pc' = [pc EXCEPT ![c] = "s_ret"]
            /\ UNCHANGED <<waiters, current, hist, stream>>
       ELSE /\ hist' = [hist EXCEPT ![c].wrote = TRUE]
            /\ stream' = [stream EXCEPT !.outstanding = @ + 1]
            /\ pc' = [pc EXCEPT ![c] = "s_read"]
            /\ current' = NoTask
            /\ UNCHANGED <<waiters, task>>
    /\ UNCHANGED <<authenticated, writer, reader, state, lastEvent>>
    /\ UNCHANGED http

\* Inside the lock: no handles, so return None; else write the command
\* and wait for the response line.
SendLocked(c) ==
    /\ current = c
    /\ pc[c] = "s_locked"
    /\ IF writer = None \/ reader = None
       THEN /\ locked' = FALSE
            /\ woken' = WokenAfterRelease
            /\ task' = [task EXCEPT ![c].response = None]
            /\ pc' = [pc EXCEPT ![c] = "s_ret"]
            /\ UNCHANGED <<waiters, current, hist, stream>>
       ELSE /\ hist' = [hist EXCEPT ![c].wrote = TRUE]
            /\ stream' = [stream EXCEPT !.outstanding = @ + 1]
            /\ pc' = [pc EXCEPT ![c] = "s_read"]
            /\ current' = NoTask
            /\ UNCHANGED <<lock, task>>
    /\ UNCHANGED <<authenticated, writer, reader, state, lastEvent>>
    /\ UNCHANGED http

ReadFailures == {"timeout", "error"}

\* What a device that echoes answers to a write: {COMMAND}:{VALUE_SET}.
Echo(t) ==
    IF t.op = "write"
    THEN {t.command \o <<COLON>> \o
             (IF t.expected # None THEN Val(t.expected) ELSE <<"O","K">>)}
    ELSE {}

\* Handlers that leave the authenticated flag as it is.
CommandFailsKeepsFlag(c, failure) ==
    /\ task' = [task EXCEPT ![c].response = None]
    /\ authenticated' = authenticated
    /\ state' = [state EXCEPT !.connected = FALSE]
    /\ stream' = [stream EXCEPT !.failed = "command",
                                !.outstanding = @ - 1]
    /\ lastEvent' = IF failure = "timeout" THEN "cmd_timeout" ELSE "cmd_error"

\* The `except asyncio.TimeoutError` and `except Exception` handlers of
\* _send_command.
CommandFails(c, failure) ==
    /\ task' = [task EXCEPT ![c].response = None]
    /\ authenticated' = FALSE
    /\ state' = [state EXCEPT !.connected = FALSE]
    /\ stream' = [stream EXCEPT !.failed = "command",
                                !.outstanding = @ - 1]
    /\ lastEvent' = IF failure = "timeout" THEN "cmd_timeout" ELSE "cmd_error"

\* Other answers to a write: the echo with another value, with another
\* command before the colon, with only the command's text up to its first
\* D before the colon, and an acknowledgement without a colon.
WriteAnswers(t) ==
    IF t.op = "write"
    THEN LET value == IF t.expected # None THEN Val(t.expected)
                      ELSE <<"O","K">>
         IN  Echo(t) \cup
             {t.command \o <<COLON, "X">>,
              <<"A","C","K",COLON>> \o value,
              Split(t.command, "D")[1] \o <<COLON>> \o value,
              <<"O","K">>}
    ELSE {}

\* The exchange is over: drain() and readline() gave a line, which is
\* returned stripped, or one of them raised (TimeoutError or another
\* exception): the handlers run after the lock is released.
ReadDone(c, lines) ==
    /\ current = NoTask
    /\ pc[c] = "s_read"
    /\ \/ \E line \in lines \cup Echo(task[c]) :
            /\ task' = [task EXCEPT ![c].response = Some(Strip(line))]
            /\ hist' = [hist EXCEPT ![c].eof = (line = <<>>)]
            /\ stream' = [stream EXCEPT !.outstanding = @ - 1]
            /\ UNCHANGED <<authenticated, state, lastEvent>>
       \/ \E failure \in ReadFailures :
            /\ CommandFails(c, failure)
            /\ UNCHANGED hist
    /\ locked' = FALSE
    /\ woken' = WokenAfterRelease
    /\ pc' = [pc EXCEPT ![c] = "s_ret"]
    /\ current' = c
    /\ UNCHANGED <<waiters, reader, writer>>
    /\ UNCHANGED http

\* -------------------------------------------------------- async_update

\* _send_command returned to async_update: merge the response, then issue
\* the next read or finish the cycle.
UpdateMerged(c, k, m) ==
    IF m.raised
    THEN /\ state' = [m.st EXCEPT !.last_error = Some(<<"Exception">>),
                                  !.connected = FALSE]
         /\ task' = [task EXCEPT ![c].ret = "state"]
         /\ pc' = [pc EXCEPT ![c] = "ret"]
    ELSE IF k < NumReads
    THEN /\ state' = m.st
         /\ task' = [task EXCEPT ![c].idx = k + 1,
                                 ![c].command = ReadCommands[k + 1]]
         /\ pc' = [pc EXCEPT ![c] = "s_enter"]
    ELSE /\ state' = [m.st EXCEPT !.connected = TRUE, !.last_error = None]
         /\ task' = [task EXCEPT ![c].ret = "state"]
         /\ pc' = [pc EXCEPT ![c] = "ret"]

UpdateStep(c) ==
    /\ current = c
    /\ pc[c] = "s_ret"
    /\ task[c].op = "update"
    /\ UpdateMerged(c, task[c].idx,
                    MergeRead(task[c].idx, state, task[c].response))
    /\ hist' = [hist EXCEPT ![c].allLines = @ /\ task[c].response # None]
    /\ UNCHANGED <<authenticated, writer, reader, stream, lastEvent, lock,
                   current>>
    /\ UNCHANGED http

\* ------------------------------------------------------ write commands

RECURSIVE NatStr(_)
NatStr(n) ==
    IF n < 10 THEN <<Digits[n + 1]>>
    ELSE NatStr(n \div 10) \o <<Digits[(n % 10) + 1]>>

\* str(n) of an integer
Str(n) == IF n < 0 THEN <<"-">> \o NatStr(0 - n) ELSE NatStr(n)

Max(a, b) == IF a >= b THEN a ELSE b
Min(a, b) == IF a <= b THEN a ELSE b

ValueMatches(r, colon, expected_value) ==
    expected_value = None
        \/ Strip(SubSeq(r, colon + 1, Len(r))) = Val(expected_value)

\* A validation that does not compare the echoed value.
ValidateLineAnyValue(command, r, expected_value) ==
    /\ Contains(r, <<COLON>>)
    /\ StartsWith(r, Split(command, "D")[1])

ValidateLine(command, r, expected_value) ==
    /\ Contains(r, <<COLON>>)
    /\ StartsWith(r, Split(command, "D")[1])
    /\ ValueMatches(r, FirstIndex(r, COLON), expected_value)

\* _validate_write_response
validate_write_response(command, response, expected_value) ==
    response # None /\ ValidateLine(command, Val(response), expected_value)

\* What a write does before it calls _send_command: `early` is "-" when
\* the command is sent, else how the call ends without sending.
Sends(command, expected) ==
    [early |-> "-", command |-> command, expected |-> expected]
Ends(how) == [early |-> how, command |-> <<>>, expected |-> None]

async_set_hvac_mode(st, mode) ==
    LET m == Upper(mode) IN
    IF m \notin {Lit.OFF, Lit.HEAT, Lit.COOL, Lit.AUTO} THEN Ends("False")
    ELSE Sends((IF st.is_manual_mode THEN CMD.SET_MODE_MANUAL
                ELSE CMD.SET_MODE_SCHEDULE) \o m, Some(m))

async_set_fan_mode(st, mode) ==
    LET m == Upper(mode) IN
    IF m \notin {Lit.AUTO, Lit.ON} THEN Ends("False")
    ELSE Sends((IF st.is_manual_mode THEN CMD.SET_FAN_MANUAL
                ELSE CMD.SET_FAN_SCHEDULE) \o m, Some(m))

async_set_cool_setpoint(st, temperature) ==
    Sends((IF st.is_manual_mode THEN CMD.SET_COOL_MANUAL
           ELSE CMD.SET_COOL_SCHEDULE) \o Str(temperature),
          Some(Str(temperature)))

\* A heat-setpoint write that always uses the manual verb.
async_set_heat_setpoint_manual(st, temperature) ==
    Sends(CMD.SET_HEAT_MANUAL \o Str(temperature), Some(Str(temperature)))

async_set_heat_setpoint(st, temperature) ==
    Sends((IF st.is_manual_mode THEN CMD.SET_HEAT_MANUAL
           ELSE CMD.SET_HEAT_SCHEDULE) \o Str(temperature),
          Some(Str(temperature)))

\* `scale.upper()[0]` raises IndexError on an empty string.
async_set_temperature_scale(st, scale) ==
    IF scale = <<>> THEN Ends("IndexError")
    ELSE LET sc == <<Upper(scale)[1]>> IN
         IF sc \notin {Lit.F, Lit.C} THEN Ends("False")
         ELSE Sends(CMD.SET_TEMP_SCALE \o sc, Some(sc))

async_set_relay_mode(st, mode) ==
    LET m == Upper(mode) IN
    IF m \notin {Lit.OFF, Lit.HUM, Lit.DEHUM} THEN Ends("False")
    ELSE Sends(CMD.SET_RELAY_MODE \o m, None)

\* A humidification write that sends the setpoint as given.
async_set_humidification_unclamped(st, independent, setpoint, variance) ==
    LET mode == IF independent THEN Lit.IH ELSE Lit.WH
        var  == Max(2, Min(10, variance))
    IN  Sends(CMD.SET_HUMIDIFICATION \o mode \o <<COMMA>> \o Str(setpoint)
                  \o <<COMMA>> \o Str(var), None)

async_set_humidification(st, independent, setpoint, variance) ==
    LET mode == IF independent THEN Lit.IH ELSE Lit.WH
        sp   == Max(10, Min(90, setpoint))
        var  == Max(2, Min(10, variance))
    IN  Sends(CMD.SET_HUMIDIFICATION \o mode \o <<COMMA>> \o Str(sp)
                  \o <<COMMA>> \o Str(var), None)

async_set_dehumidification(st, independent, setpoint, variance) ==
    LET mode == IF independent THEN Lit.IC ELSE Lit.WC
        sp   == Max(10, Min(90, setpoint))
        var  == Max(2, Min(10, variance))
    IN  Sends(CMD.SET_DEHUMIDIFICATION \o mode \o <<COMMA>> \o Str(sp)
                  \o <<COMMA>> \o Str(var), None)

WriteReturnValue(t) ==
    IF validate_write_response(t.command, t.response, t.expected)
    THEN "True" ELSE "False"

\* A write that stores an acknowledged scale in the snapshot.
WriteReturnOptimistic(c) ==
    /\ current = c
    /\ pc[c] = "s_ret"
    /\ task[c].op = "write"
    /\ task' = [task EXCEPT ![c].ret = WriteReturnValue(task[c])]
    /\ pc' = [pc EXCEPT ![c] = "ret"]
    /\ state' = IF WriteReturnValue(task[c]) = "True"
                   /\ StartsWith(task[c].command, CMD.SET_TEMP_SCALE)
                THEN [state EXCEPT !.temp_scale = Val(task[c].expected)]
                ELSE state
    /\ UNCHANGED <<authenticated, writer, reader, stream, lastEvent, lock,
                   current, hist>>
    /\ UNCHANGED http

\* _send_command returned to a write: validate the response.
WriteReturn(c) ==
    /\ current = c
    /\ pc[c] = "s_ret"
    /\ task[c].op = "write"
    /\ task' = [task EXCEPT ![c].ret = WriteReturnValue(task[c])]
    /\ pc' = [pc EXCEPT ![c] = "ret"]
    /\ UNCHANGED <<client, lock, current, hist>>
    /\ UNCHANGED http

\* _send_command returned to test_connection
TestReturn(c) ==
    /\ current = c
    /\ pc[c] = "s_ret"
    /\ task[c].op = "test"
    /\ task' = [task EXCEPT ![c].ret =
                    IF task[c].response # None THEN "True" ELSE "False"]
    /\ pc' = [pc EXCEPT ![c] = "ret"]
    /\ UNCHANGED <<client, lock, current, hist>>
    /\ UNCHANGED http

\* The call is over; its task ends.
Return(c) ==
    /\ current = c
    /\ pc[c] = "ret"
    /\ pc' = [pc EXCEPT ![c] = "idle"]
    /\ task' = [task EXCEPT ![c] = IdleTask]
    /\ hist' = [hist EXCEPT ![c] = IdleHist]
    /\ current' = NoTask
    /\ UNCHANGED <<client, lock>>
    /\ UNCHANGED http

\* ------------------------------------------------------------- inputs

\* Lines the device may send: what readline() returns.
Line ==
    [OK |-> <<"O","K","\r","\n">>,
     DENIED |-> <<"E","R","R","\r","\n">>,
     EOF |-> <<>>,
     MODE_OFF |-> <<"R","N","S","1",":","O","F","F","\r","\n">>,
     MODE_ON |-> <<"R","N","S","1",":","O","N","\r","\n">>,
     ALL_STATES |-> <<"R","A","S","1",":","6","8",",","N","A",",","H","E","A","T",",","F","A","N"," ","O","N",",","N","O",",","N","O",",","7","7",",","6","8",",","H","E","A","T",",","1",",","N","O","N","E","\r","\n">>,
     GARBAGE |-> <<"?","\r","\n">>,
     OK_INDENTED |-> <<" ","O","K","\r","\n">>,
     OKAY |-> <<"O","K","A","Y","\r","\n">>,
     NOK |-> <<"N","O","K","\r","\n">>,
     BLANK |-> <<"\r","\n">>,
     SCALE_C |-> <<"R","T","S","1",":","C","E","L","S","I","U","S","\r","\n">>,
     SCALE_F |-> <<"R","T","S","1",":","F","A","H","R","E","N","H","E","I","T","\r","\n">>,
     STATES_SHORT |-> <<"R","A","S","1",":","6","8",",","N","A",",","H","E","A","T","\r","\n">>,
     HUMIDITY_BAD |-> <<"R","R","H","S","1",":","a","b","c","\r","\n">>,
     HUM |-> <<"R","M","H","S","1",":","W","H",",","5","0",",","5","\r","\n">>,
     HUM_BAD |-> <<"R","M","H","S","1",":","W","H",",","a","b","c",",","5","\r","\n">>,
     DEHUM_SHORT |-> <<"R","M","D","H","S","1",":","I","C",",","5","5","\r","\n">>,
     RELAY_STATE_EMPTY |-> <<"R","R","S","1",":","\r","\n">>]

\* Arguments the callers pass to the write operations.
Arg ==
    [heat |-> <<"h","e","a","t">>,
     DRY |-> <<"D","R","Y">>,
     on |-> <<"o","n">>,
     c |-> <<"c">>,
     kelvin |-> <<"k","e","l","v","i","n">>,
     hum |-> <<"h","u","m">>]


\* What the device may answer to the login line and to a command, in the
\* concurrent runs.
LoginLines == {Line.OK, Line.DENIED, Line.EOF}
WireLines == {Line.MODE_OFF, Line.MODE_ON, Line.GARBAGE, Line.EOF}

\* The write calls the callers make.
WriteCalls ==
    <<[fn |-> "set_hvac_mode", a |-> Arg.heat],
      [fn |-> "set_hvac_mode", a |-> Arg.DRY],
      [fn |-> "set_fan_mode", a |-> Arg.on],
      [fn |-> "set_cool_setpoint", a |-> 72],
      [fn |-> "set_heat_setpoint", a |-> 68],
      [fn |-> "set_temperature_scale", a |-> Arg.c],
      [fn |-> "set_temperature_scale", a |-> Arg.kelvin],
      [fn |-> "set_temperature_scale", a |-> Lit.EMPTY],
      [fn |-> "set_relay_mode", a |-> Arg.hum],
      [fn |-> "set_humidification", a |-> <<TRUE, 95, 15>>],
      [fn |-> "set_dehumidification", a |-> <<FALSE, 5, 1>>]>>

\* What it may answer in the sequential runs: well-formed lines, lines
\* with too few fields, with non-numeric tokens, with an empty payload.
LoginLinesSeq ==
    {Line.OK, Line.OK_INDENTED, Line.OKAY, Line.NOK, Line.DENIED, Line.BLANK,
     Line.EOF}
WireLinesSeq ==
    {Line.SCALE_C, Line.SCALE_F, Line.ALL_STATES, Line.STATES_SHORT,
     Line.HUMIDITY_BAD, Line.MODE_OFF, Line.MODE_ON, Line.HUM, Line.HUM_BAD,
     Line.DEHUM_SHORT, Line.RELAY_STATE_EMPTY, Line.GARBAGE, Line.EOF}

\* The writes made in the concurrent runs.
ConcurrentWrites == {1, 6, 10}
AllWrites == DOMAIN WriteCalls

BuildWrite(w, st) ==
    CASE w.fn = "set_hvac_mode" -> async_set_hvac_mode(st, w.a)
      [] w.fn = "set_fan_mode" -> async_set_fan_mode(st, w.a)
      [] w.fn = "set_cool_setpoint" -> async_set_cool_setpoint(st, w.a)
      [] w.fn = "set_heat_setpoint" -> async_set_heat_setpoint(st, w.a)
      [] w.fn = "set_temperature_scale" -> async_set_temperature_scale(st, w.a)
      [] w.fn = "set_relay_mode" -> async_set_relay_mode(st, w.a)
      [] w.fn = "set_humidification" ->
             async_set_humidification(st, w.a[1], w.a[2], w.a[3])
      [] OTHER -> async_set_dehumidification(st, w.a[1], w.a[2], w.a[3])

\* ------------------------------------------------- device payloads
\* The fields of the RAS1 payload of the protocol's example, and payloads
\* that differ from it in one field.
RasBase ==
    <<<<"6","8">>, <<"N","A">>, <<"H","E","A","T">>, <<"F","A","N"," ","O","N">>, <<"N","O">>, <<"N","O">>, <<"7","7">>, <<"6","8">>, <<"H","E","A","T">>, <<"1">>, <<"N","O","N","E">>>>

RasVariants ==
    {<<1, <<"N","A">>>>,
     <<1, <<"n","a">>>>,
     <<1, <<"-","-">>>>,
     <<1, <<>>>>,
     <<1, <<" ">>>>,
     <<1, <<"N","/","A">>>>,
     <<1, <<"0">>>>,
     <<1, <<"6","8",".","5">>>>,
     <<1, <<"-","5">>>>,
     <<1, <<" ","7","2"," ">>>>,
     <<1, <<"a","b","c">>>>,
     <<1, <<"N","A","N">>>>,
     <<1, <<"i","n","f">>>>,
     <<1, <<"1","e","1">>>>,
     <<2, <<"5","5">>>>,
     <<3, <<" ","c","o","o","l"," ">>>>,
     <<3, <<"D","R","Y">>>>,
     <<3, <<>>>>,
     <<4, <<"F","A","N"," ","A","U","T","O">>>>,
     <<4, <<"o","n">>>>,
     <<4, <<"n","o","n","e">>>>,
     <<5, <<"Y","E","S">>>>,
     <<5, <<"y">>>>,
     <<5, <<"t","r","u","e">>>>,
     <<5, <<"1">>>>,
     <<5, <<"y","e","s"," ","p","l","e","a","s","e">>>>,
     <<6, <<"Y">>>>,
     <<7, <<"8","0">>>>,
     <<7, <<"a","b","c">>>>,
     <<7, <<>>>>,
     <<7, <<" ","7","5"," ">>>>,
     <<8, <<"6","0">>>>,
     <<8, <<"x">>>>,
     <<9, <<" ","O","f","f"," ">>>>,
     <<10, <<"0">>>>,
     <<10, <<"2">>>>,
     <<10, <<>>>>,
     <<10, <<"x">>>>,
     <<10, <<"1",".","0">>>>,
     <<10, <<" ","0"," ">>>>,
     <<11, <<"n","o","n","e">>>>,
     <<11, <<"V","a","c","a","t","i","o","n">>>>,
     <<11, <<>>>>}

RECURSIVE JoinComma(_)
JoinComma(parts) ==
    IF Len(parts) = 0 THEN <<>>
    ELSE IF Len(parts) = 1 THEN parts[1]
    ELSE parts[1] \o <<COMMA>> \o JoinComma(Tail(parts))

\* The line the device sends for a payload of these fields.
ResponseLine(prefix, parts) == prefix \o JoinComma(parts) \o <<"\r", "\n">>

\* The payloads of the reads whose parsers split fields: RAS1 (the
\* example, its variants, payloads of 10, 3, 12 and no fields), RMRF1,
\* RMHS1 and RMDHS1.
Payloads ==
    [ras |-> {RasBase, SubSeq(RasBase, 1, 10), SubSeq(RasBase, 1, 3),
              RasBase \o <<<<"X">>>>, <<<<>>>>}
             \cup {[RasBase EXCEPT ![v[1]] = v[2]] : v \in RasVariants},
     relay |-> {<<<<"H","U","M">>, <<"O","F","F">>>>,
                <<<<"d","e","h","u","m">>, <<"h","u","m">>>>,
                <<<<"O","F","F">>>>,
                <<<<" ","h","u","m"," ">>>>,
                <<<<>>>>,
                <<<<"O","F","F">>, <<"O","F","F">>, <<"X">>>>},
     hum |-> {<<<<"W","H">>, <<"5","0">>, <<"5">>>>,
              <<<<"I","H">>, <<"6","0">>, <<"4">>>>,
              <<<<"W","H">>, <<"a","b","c">>, <<"5">>>>,
              <<<<"I","H">>, <<"5","0">>, <<"x">>>>,
              <<<<"W","H">>, <<"5","0">>>>,
              <<<<>>>>,
              <<<<"w","h">>, <<" ","4","5"," ">>, <<"3"," ">>>>,
              <<<<"I","H">>, <<"7","0">>, <<"6">>, <<"9">>>>},
     dehum |-> {<<<<"I","C">>, <<"5","5">>, <<"5">>>>,
                <<<<"W","C">>, <<"a","b","c">>, <<"5">>>>,
                <<<<"W","C">>, <<"4","0">>, <<"x">>>>,
                <<<<"I","C">>, <<"5","5">>>>},
     humidity |-> {<<<<"4","5">>>>, <<<<" ","5","0">>>>,
                   <<<<"a","b","c">>>>, <<<<>>>>},
     scale |-> {<<Lit.FAHRENHEIT>>, <<<<"C","E","L","S","I","U","S">>>>,
                <<<<"c","e","l","s","i","u","s">>>>, <<Lit.F>>, <<Lit.C>>,
                <<<<"K","E","L","V","I","N">>>>, <<<<>>>>}]

\* -------------------------------------------------------------- calls
\* A caller starts a call when the event loop is free.

MayCall(c) ==
    /\ current = NoTask
    /\ pc[c] = "idle"

CallConnect(c) ==
    /\ MayCall(c)
    /\ task' = [task EXCEPT ![c].op = "connect"]
    /\ pc' = [pc EXCEPT ![c] = "c_enter"]
    /\ current' = c
    /\ UNCHANGED <<client, lock, hist>>
    /\ UNCHANGED http

CallDisconnect(c) ==
    /\ MayCall(c)
    /\ task' = [task EXCEPT ![c].op = "disconnect"]
    /\ pc' = [pc EXCEPT ![c] = "d_enter"]
    /\ current' = c
    /\ UNCHANGED <<client, lock, hist>>
    /\ UNCHANGED http

CallTest(c) ==
    /\ MayCall(c)
    /\ task' = [task EXCEPT ![c].op = "test"]
    /\ pc' = [pc EXCEPT ![c] = "c_enter"]
    /\ current' = c
    /\ UNCHANGED <<client, lock, hist>>
    /\ UNCHANGED http

CallUpdate(c) ==
    /\ MayCall(c)
    /\ task' = [task EXCEPT ![c].op = "update", ![c].idx = 1,
                            ![c].command = ReadCommands[1]]
    /\ pc' = [pc EXCEPT ![c] = "s_enter"]
    /\ current' = c
    /\ UNCHANGED <<client, lock, hist>>
    /\ UNCHANGED http

CallWrite(c, calls) ==
    /\ MayCall(c)
    /\ \E i \in calls :
        LET b == BuildWrite(WriteCalls[i], state) IN
        /\ task' = [task EXCEPT ![c].op = "write", ![c].call = i,
                                ![c].command = b.command,
                                ![c].expected = b.expected,
                                ![c].ret = b.early]
        /\ pc' = [pc EXCEPT ![c] = IF b.early = "-" THEN "s_enter" ELSE "ret"]
    /\ current' = c
    /\ UNCHANGED <<client, lock, hist>>
    /\ UNCHANGED http

\* The humidification and dehumidification writes of WriteCalls, called
\* with every flag, every setpoint in -MaxVarianceArg..MaxSetpointArg and
\* every variance in -MaxVarianceArg..MaxVarianceArg; the frame keeps the
\* arguments.
MaxSetpointArg == 100
MaxVarianceArg == 15
ClampedWrites == {10, 11}

CallClampedWrite(c) ==
    /\ MayCall(c)
    /\ \E i \in ClampedWrites, independent \in BOOLEAN,
          setpoint \in (0 - MaxVarianceArg)..MaxSetpointArg,
          variance \in (0 - MaxVarianceArg)..MaxVarianceArg :
        LET b == BuildWrite([fn |-> WriteCalls[i].fn,
                             a |-> <<independent, setpoint, variance>>],
                            state) IN
        /\ task' = [task EXCEPT ![c].op = "write", ![c].call = i,
                                ![c].args = <<independent, setpoint, variance>>,
                                ![c].command = b.command,
                                ![c].expected = b.expected,
                                ![c].ret = b.early]
        /\ pc' = [pc EXCEPT ![c] = IF b.early = "-" THEN "s_enter" ELSE "ret"]
    /\ current' = c
    /\ UNCHANGED <<client, lock, hist>>
    /\ UNCHANGED http

\* ------------------------------------------------------ specification

\* What a running task does next.
Step(c) ==
    \/ ConnectEnter(c) \/ ConnectLocked(c) \/ ConnectReturn(c)
    \/ DisconnectEnter(c) \/ DisconnectLocked(c)
    \/ SendEnter(c) \/ SendAcquire(c) \/ SendLocked(c)
    \/ UpdateStep(c) \/ WriteReturn(c) \/ Return(c)

\* The network events that resume a suspended task.
NetworkDone(c) ==
    \/ CloseDone(c) \/ OpenDone(c) \/ DisconnectCloseDone(c)

\* Concurrent runs: the poller's update cycles next to a user's writes,
\* connect and disconnect.
Next ==
    \/ CallUpdate("poll")
    \/ CallConnect("user")
    \/ CallDisconnect("user")
    \/ CallWrite("user", ConcurrentWrites)
    \/ \E c \in Callers :
        \/ LockGranted(c)
        \/ LoginDone(c, LoginLines) \/ ReadDone(c, WireLines)
        \/ NetworkDone(c)
        \/ Step(c)

Spec == Init /\ [][Next]_vars

\* The waits of the concurrent runs that the code bounds by a timeout:
\* open_connection and readline run under asyncio.wait_for, so each ends
\* in a result, a timeout or an error.
TimedWaitEnds(c) ==
    \/ OpenDone(c) \/ LoginDone(c, LoginLines) \/ ReadDone(c, WireLines)

\* The waits no timeout bounds: `await self._writer.wait_closed()`.
UntimedWaitEnds(c) == CloseDone(c) \/ DisconnectCloseDone(c)

\* The concurrent runs under the scheduling the code provides: the event
\* loop runs every task that is ready, resumes a waiter of the lock once
\* its future is resolved, and every wait under wait_for ends.  Nothing
\* makes a wait without a timeout end.
SpecLive ==
    /\ Spec
    /\ \A c \in Callers :
          /\ WF_vars(Step(c))
          /\ WF_vars(LockGranted(c))
          /\ WF_vars(TimedWaitEnds(c))

\* Sequential runs: one caller makes one call after another, with the
\* larger set of device answers.
NextSeq ==
    \/ CallUpdate("user")
    \/ CallConnect("user")
    \/ CallDisconnect("user")
    \/ CallTest("user")
    \/ CallWrite("user", AllWrites)
    \/ LoginDone("user", LoginLinesSeq) \/ ReadDone("user", WireLinesSeq \cup WriteAnswers(task["user"]))
    \/ NetworkDone("user")
    \/ Step("user") \/ TestReturn("user")

SpecSeq == Init /\ [][NextSeq]_vars

\* ------------------------------------------------- pure specifications

\* The merges of async_update as functions of the snapshot and the
\* response: the response to the k-th read, whose payload is one of
\* `payloads`, is merged into the snapshot; the caller's frame keeps k and
\* the response.  MaxMerges bounds the merges of one behaviour.
MaxMerges == 2

MergeAnswer(c, k, payloads) ==
    /\ MayCall(c)
    /\ hist[c].merges < MaxMerges
    /\ \E parts \in payloads :
        LET response == Some(Strip(ResponseLine(ReadPrefixes[k], parts))) IN
        /\ state' = MergeRead(k, state, response).st
        /\ task' = [task EXCEPT ![c].op = "update", ![c].idx = k,
                                ![c].command = ReadCommands[k],
                                ![c].response = response]
    /\ hist' = [hist EXCEPT ![c].merges = @ + 1]
    /\ UNCHANGED <<authenticated, writer, reader, stream, lastEvent, lock, pc,
                   current>>
    /\ UNCHANGED http

NextMerge ==
    \/ MergeAnswer("poll", 1, Payloads.scale)
    \/ MergeAnswer("poll", 2, Payloads.ras)
    \/ MergeAnswer("poll", 3, Payloads.humidity)
    \/ MergeAnswer("poll", 5, Payloads.relay)
    \/ MergeAnswer("poll", 6, Payloads.hum)
    \/ MergeAnswer("poll", 7, Payloads.dehum)

SpecMerge == Init /\ [][NextMerge]_vars

\* The commands the humidification and dehumidification writes build.
NextWrite == CallClampedWrite("user")

SpecWrite == Init /\ [][NextWrite]_vars

\* ------------------------------------------- the HTTP poll cycle
\* coordinator.py and climate.py each define NetXDataUpdateCoordinator;
\* its _async_update_data fetches the documents one after the other.
\* Home Assistant's DataUpdateCoordinator publishes the dict the cycle
\* returns as coordinator.data, and keeps the data it had, with
\* last_update_success false, when the cycle raises.

\* The cycle ended: it returned its data, or raised.
CycleEnds(f, result) ==
    /\ fetched' = [f EXCEPT !.step = "done", !.result = result]
    /\ coordinator' =
          IF result = "data"
          THEN [data |-> Some(f.data), last_update_success |-> TRUE]
          ELSE [coordinator EXCEPT !.last_update_success = FALSE]
    /\ UNCHANGED form

\* The cycle goes on to the next fetch.
CycleGoesOn(f, step) ==
    /\ fetched' = [f EXCEPT !.step = step]
    /\ UNCHANGED coordinator
    /\ UNCHANGED form

\* data[child.tag] = child.text for the children of the root.
TagsOf(body) == body.items

\* The key of data each field of the co2 object goes to.
Co2Fields ==
    [co2_level |-> "level", co2_peak_level |-> "peak_level",
     co2_alert_level |-> "alert_level", co2_type |-> "type",
     co2_valid |-> "valid", co2_in_alert |-> "in_alert",
     co2_peak_reset |-> "peak_reset", co2_display |-> "display",
     co2_relay_high |-> "relay_high",
     co2_relay_failure |-> "relay_failure"]

\* climate.py copies three of them.
Co2FieldsClimate == {"co2_level", "co2_peak_level", "co2_alert_level"}

\* if co2_data and "co2" in co2_data: data["co2_..."] = co2_info.get(...)
\* The items to merge of a parsed JSON document; a document that is
\* empty or has no "co2" member gives none.
Co2Items(body, keys) ==
    IF body.kind = "co2"
    THEN [k \in keys |-> Get(body.items, Co2Fields[k])]
    ELSE EmptyDict

\* What the fetch of co2.json raises: the exception of session.get(),
\* the one of response.json() on a body that is not JSON, or the
\* AttributeError of None.get() when the "co2" member is null.
Co2Raises(r) ==
    CASE r.status \in {"ClientError", "TimeoutError"} -> r.status
      [] r.status # "200" -> "none"
      [] r.body.kind = "ContentTypeError" -> "ClientError"
      [] r.body.kind = "JSONDecodeError" -> "ValueError"
      [] r.body.kind = "co2_null" -> "AttributeError"
      [] OTHER -> "none"

\* _parse_schedule_xml: the days of the document, {} when it does not
\* parse.
parse_schedule_xml(body) ==
    IF body.kind = "malformed" THEN Some("{}") ELSE Get(body.items, "days")

\* async_refresh: a poll cycle starts.
Refresh(variant) ==
    /\ fetched.step \in {"idle", "done"}
    /\ fetched.variant \in {"none", variant}
    /\ fetched' = [IdleCycle EXCEPT !.variant = variant, !.step = "index",
                                    !.before = coordinator.data]
    /\ UNCHANGED coordinator
    /\ UNCHANGED form
    /\ UNCHANGED <<client, lock, pc, current, task, hist>>

\* index.xml answered; coordinator.py parses it at once, climate.py after
\* co2.json.
IndexFetched(r) ==
    /\ fetched.step = "index"
    /\ LET f == [fetched EXCEPT !.index = r]
       IN  CASE r.status = "ClientError" -> CycleEnds(f, "UpdateFailed")
             [] r.status = "TimeoutError" -> CycleEnds(f, "TimeoutError")
             [] r.status # "200" -> CycleEnds(f, "UpdateFailed")
             [] f.variant = "climate" ->
                    CycleGoesOn([f EXCEPT !.xml_text = r.body], "co2")
             [] r.body.kind = "malformed" -> CycleEnds(f, "UpdateFailed")
             [] OTHER ->
                    CycleGoesOn([f EXCEPT !.data = TagsOf(r.body)], "co2")
    /\ UNCHANGED <<client, lock, pc, current, task, hist>>

\* co2.json answered, in coordinator.py: inside
\* try ... except (aiohttp.ClientError, ValueError): pass
Co2FetchedCoordinator(f, r) ==
    LET raised == Co2Raises(r)
    IN  IF raised \in {"TimeoutError", "AttributeError"}
        THEN CycleEnds(f, raised)
        ELSE CycleGoesOn(
                 [f EXCEPT !.data =
                     IF raised = "none" /\ r.status = "200"
                     THEN Updated(f.data,
                                  Co2Items(r.body, DOMAIN Co2Fields))
                     ELSE f.data],
                 "confighumidity")

\* co2.json answered, in climate.py: no handler of its own; then the
\* index document is parsed and the cycle returns.
Co2FetchedClimate(f, r) ==
    LET raised == Co2Raises(r)
        tags == TagsOf(f.xml_text)
    IN  CASE raised = "ClientError" -> CycleEnds(f, "UpdateFailed")
          [] raised \in {"TimeoutError", "ValueError"} ->
                 CycleEnds(f, raised)
          [] f.xml_text.kind = "malformed" -> CycleEnds(f, "UpdateFailed")
          [] raised = "AttributeError" -> CycleEnds(f, raised)
          [] OTHER ->
                 CycleEnds(
                     [f EXCEPT !.data =
                         IF r.status = "200"
                         THEN Updated(tags,
                                      Co2Items(r.body, Co2FieldsClimate))
                         ELSE tags],
                     "data")

Co2Fetched(r) ==
    /\ fetched.step = "co2"
    /\ LET f == [fetched EXCEPT !.co2 = r]
       IN  IF f.variant = "climate"
           THEN Co2FetchedClimate(f, r)
           ELSE Co2FetchedCoordinator(f, r)
    /\ UNCHANGED <<client, lock, pc, current, task, hist>>

\* confighumidity.htm answered, inside
\* try ... except (aiohttp.ClientError, ValueError)
HumidityConfigFetched(r) ==
    /\ fetched.step = "confighumidity"
    /\ LET f == [fetched EXCEPT !.humidity = r]
       IN  IF r.status = "TimeoutError"
           THEN CycleEnds(f, "TimeoutError")
           ELSE CycleGoesOn(
                    [f EXCEPT !.data =
                        IF r.status = "200"
                        THEN Updated(f.data, r.body.items)
                        ELSE f.data],
                    "schedule")
    /\ UNCHANGED <<client, lock, pc, current, task, hist>>

\* schedule.xml answered, inside
\* try ... except (aiohttp.ClientError, ValueError, ET.ParseError);
\* then return data.
ScheduleFetched(r) ==
    /\ fetched.step = "schedule"
    /\ LET f == [fetched EXCEPT !.schedule = r]
       IN  IF r.status = "TimeoutError"
           THEN CycleEnds(f, "TimeoutError")
           ELSE CycleEnds(
                    [f EXCEPT !.data =
                        IF r.status = "200"
                        THEN Updated(f.data,
                                 [k \in {"schedule"} |->
                                     parse_schedule_xml(r.body)])
                        ELSE f.data],
                    "data")
    /\ UNCHANGED <<client, lock, pc, current, task, hist>>

\* The answers of the device and of the network to one GET.
Unanswered ==
    {Response(st, "none", EmptyDict) :
        st \in {"404", "ClientError", "TimeoutError"}}

IndexResponses ==
    Unanswered
    \cup {Response("200", "xml",
                   [curtemp |-> Some(t), humidity |-> Some("45")]) :
             t \in {"72", "75"}}
    \cup {Response("200", "malformed", EmptyDict)}

Co2Info ==
    {[valid |-> Some("true"), level |-> Some("900"),
      peak_level |-> Some("950"), alert_level |-> Some("1000"),
      in_alert |-> Some("false")],
     [valid |-> Some("false"), level |-> Some("400"),
      peak_level |-> Some("0"), alert_level |-> Some("0"),
      in_alert |-> Some("true")],
     [level |-> Some("650"), peak_level |-> Some("700"),
      alert_level |-> Some("1000"), in_alert |-> Some("false")]}

Co2Responses ==
    Unanswered
    \cup {Response("200", kind, EmptyDict) :
             kind \in {"ContentTypeError", "JSONDecodeError", "empty",
                       "no_co2", "co2_null"}}
    \cup {Response("200", "co2", info) : info \in Co2Info}

HumidityConfigResponses ==
    Unanswered
    \cup {Response("200", "html", EmptyDict),
          Response("200", "html", [hum_setpoint |-> Some("40")])}

ScheduleResponses ==
    Unanswered
    \cup {Response("200", "xml", [days |-> Some("{monday: [sch1]}")]),
          Response("200", "malformed", EmptyDict)}

NextHttp ==
    \/ \E variant \in {"coordinator", "climate"} : Refresh(variant)
    \/ \E r \in IndexResponses : IndexFetched(r)
    \/ \E r \in Co2Responses : Co2Fetched(r)
    \/ \E r \in HumidityConfigResponses : HumidityConfigFetched(r)
    \/ \E r \in ScheduleResponses : ScheduleFetched(r)

SpecHttp == Init /\ [][NextHttp]_vars

\* ------------------------------------------- the HTTP form writes
\* number.py and switch.py: each entity builds the whole form of its
\* group from the coordinator's cached data, posts it, and after a
\* successful post sleeps a second and requests a refresh.

\* dict.get(key, default)
GetOr(d, key, default) == IF key \in DOMAIN d THEN d[key] ELSE Some(default)

\* The form an entity posts for `value`: its own field from the call, the
\* two others from coordinator.data, with their defaults.
FormData(e, cached, value) ==
    [dehum |-> IF e = "dehum_independent" THEN Some(value)
               ELSE GetOr(cached, "dehum_independent", 0),
     spdehum |-> IF e = "dehum_setpoint" THEN Some(value)
                 ELSE GetOr(cached, "dehum_setpoint", 55),
     spvdehum |-> IF e = "dehum_variance" THEN Some(value)
                  ELSE GetOr(cached, "dehum_variance", 5)]

\* coordinator.async_send_command: True iff the POST answered 200; the
\* device then holds the settings of the form.
async_send_command(data, status) ==
    [success |-> status = "200",
     thermostat |-> IF status = "200"
                    THEN [field \in DOMAIN data |-> Val(data[field])]
                    ELSE thermostat]

\* The entity's `available`: Home Assistant calls no service on an entity
\* that is not available.
available(e) ==
    /\ coordinator.last_update_success
    /\ coordinator.data # None
    /\ Get(Val(coordinator.data), e) # None

\* async_set_native_value of the two numbers, async_turn_on of the switch
\* (value 1), up to the sleep that follows a successful post.
EntityWrite(e, value, status) ==
    /\ entities[e] = "idle"
    /\ available(e)
    /\ LET sent == async_send_command(
                       FormData(e, Val(coordinator.data), value), status)
       IN  /\ thermostat' = sent.thermostat
           /\ entities' = [entities EXCEPT
                              ![e] = IF sent.success THEN "sleep" ELSE "idle"]
    /\ UNCHANGED <<coordinator, fetched>>
    /\ UNCHANGED <<client, lock, pc, current, task, hist>>

\* The sleep is over: coordinator.async_request_refresh() starts a poll
\* cycle unless one is running.
RequestRefresh(e) ==
    /\ entities[e] = "sleep"
    /\ entities' = [entities EXCEPT ![e] = "idle"]
    /\ fetched' = IF fetched.step \in {"idle", "done"}
                  THEN [IdleCycle EXCEPT !.variant = "coordinator",
                                         !.step = "index",
                                         !.before = coordinator.data]
                  ELSE fetched
    /\ UNCHANGED <<coordinator, thermostat>>
    /\ UNCHANGED <<client, lock, pc, current, task, hist>>

\* confighumidity.htm as the device serves it, and what
\* _parse_humidity_config takes from it.
ConfigHumidityPage ==
    Response("200", "html",
             [dehum_independent |-> Some(thermostat.dehum),
              dehum_setpoint |-> Some(thermostat.spdehum),
              dehum_variance |-> Some(thermostat.spvdehum)])

\* The values the user sets.
FormValues ==
    [dehum_setpoint |-> {50, 60}, dehum_variance |-> {2, 4},
     dehum_independent |-> {1}]

NextForm ==
    \/ Refresh("coordinator")
    \/ \E r \in {Response("200", "xml", [humidity |-> Some("45")]),
                 Response("404", "none", EmptyDict)} : IndexFetched(r)
    \/ Co2Fetched(Response("404", "none", EmptyDict))
    \/ \E r \in {ConfigHumidityPage, Response("404", "none", EmptyDict)} :
          HumidityConfigFetched(r)
    \/ ScheduleFetched(Response("404", "none", EmptyDict))
    \/ \E e \in Entities, status \in {"200", "404", "ClientError"} :
          \E value \in FormValues[e] : EntityWrite(e, value, status)
    \/ \E e \in Entities : RequestRefresh(e)

SpecForm == Init /\ [][NextForm]_vars

\* ============================================================ claims

\* C1: whenever the authenticated flag is true, the latest of the events
\* login accepted / command timeout / command I/O error / disconnect /
\* failed connect is a login that the device accepted.
C1_AuthenticatedSinceLogin == authenticated => lastEvent = "login_ok"

\* C1 witness: a command failed on an open stream and the flag is false.
C1_FlagClearedByFailure ==
    /\ ~authenticated
    /\ writer # None
    /\ lastEvent \in {"cmd_timeout", "cmd_error"}

\* C2: at most one caller is inside a request/response exchange (a line
\* written, its response awaited), whichever operations the callers run.
C2_OneExchangeAtATime ==
    Cardinality({c \in Callers : pc[c] \in {"c_read", "s_read"}}) <= 1

\* C2 witness: one caller awaits the response to its command while the
\* other is queued on the lock.
C2_Contended ==
    \E a, b \in Callers : pc[a] = "s_read" /\ pc[b] \in LockWaits

\* C3: a command issued while not authenticated makes exactly one connect
\* attempt before anything is sent; it goes on to send only if that
\* attempt succeeded, and if the attempt failed it returns no response
\* and has written nothing.
C3_ConnectOnceBeforeSend ==
    \A c \in Callers :
        /\ hist[c].connects <= 1
        /\ (pc[c] \in {"s_acquire", "s_lockwait", "s_locked", "s_read", "s_ret"}
             /\ hist[c].unauthAtIssue)
               => hist[c].connects = 1
        /\ (pc[c] \in {"s_acquire", "s_lockwait", "s_locked", "s_read"}
             /\ hist[c].unauthAtIssue)
               => task[c].cret
        /\ (pc[c] = "s_ret" /\ hist[c].unauthAtIssue /\ ~task[c].cret)
               => (task[c].response = None /\ ~hist[c].wrote)

\* C3 witness: _send_command returns None after its one connect failed.
C3_ReturnedAfterFailedConnect ==
    \E c \in Callers :
        /\ pc[c] = "s_ret"
        /\ hist[c].unauthAtIssue
        /\ hist[c].connects = 1
        /\ ~task[c].cret
        /\ task[c].response = None

\* C4: an update cycle whose last read failed at the connection level
\* (its _send_command returned None) returns with connected false and
\* last_error populated.
C4_FailedCycleIsReported ==
    \A c \in Callers :
        (pc[c] = "ret" /\ task[c].op = "update" /\ task[c].response = None)
            => (~state.connected /\ state.last_error # None)

\* C5: when the connect attempt of the first read of an update cycle
\* fails, the cycle issues no further read.
C5_CycleStopsAfterFailedConnect ==
    \A c \in Callers : hist[c].firstConnectFailed => task[c].idx = 1

\* C6: with one caller, a command is on the wire only while the client is
\* authenticated and on a stream on which no exchange has failed, and the
\* login line is written only on a stream just opened.
C6_ReauthenticatesOnNewStream ==
    \A c \in Callers :
        /\ pc[c] = "s_read" => (authenticated /\ stream.failed = "no")
        /\ pc[c] = "c_read" => stream.failed = "no"

\* C6 witness: a command is on the wire of a stream that was opened after
\* a command had failed on an earlier one.
C6_SentAfterRecovery ==
    \E c \in Callers : pc[c] = "s_read" /\ stream.afterFailure

\* C7: connect() returns success exactly when a login response was
\* received and (read as the client reads it, without the surrounding
\* whitespace) starts with OK; success sets the flag; on failure the flag
\* and connected are false, and a response that does not start with OK is
\* kept in last_error.
C7_LoginOutcome ==
    \A c \in Callers :
        pc[c] = "c_ret" =>
            /\ task[c].cret <=>
                  (task[c].login_response # None
                   /\ StartsWith(Val(task[c].login_response), <<"O", "K">>))
            /\ task[c].cret => authenticated
            /\ ~task[c].cret => (~authenticated /\ ~state.connected)
            /\ (~task[c].cret /\ task[c].login_response # None)
                  => (state.last_error # None
                      /\ Val(state.last_error) =
                            <<"Authentication failed: ">>
                                \o Val(task[c].login_response))

\* C7 witness: connect() returns failure after the device answered NOK.
C7_RejectedLogin ==
    \E c \in Callers :
        /\ pc[c] = "c_ret"
        /\ ~task[c].cret
        /\ task[c].login_response = Some(<<"N", "O", "K">>)

\* C8: an update cycle in which every read got a response returns after
\* all eight reads, with connected true and last_error absent, whatever
\* the responses contained.
C8_CycleCompletes ==
    \A c \in Callers :
        (pc[c] = "ret" /\ task[c].op = "update" /\ hist[c].allLines)
            => /\ task[c].idx = NumReads
               /\ state.connected
               /\ state.last_error = None

\* C8 witness: such a cycle returns after a humidification response with
\* a non-numeric setpoint was merged.
C8_CompletedDespiteMalformed ==
    \E c \in Callers :
        /\ pc[c] = "ret"
        /\ task[c].op = "update"
        /\ hist[c].allLines
        /\ state.hum_control_mode = Some(Lit.WH)
        /\ state.hum_setpoint = None

\* C9: the device-data fields change only when an update cycle merges a
\* response; the merge of the k-th read changes only the fields of the
\* k-th group, and changes nothing when the response is missing or does
\* not start with the k-th prefix.
C9_GroupChangedByOwnResponse ==
    [][\A c \in Callers :
          IF current = c /\ pc[c] = "s_ret" /\ task[c].op = "update"
          THEN /\ \A f \in DataFields \ GroupFields[task[c].idx] :
                     state'[f] = state[f]
               /\ ~(task[c].response # None
                    /\ StartsWith(Val(task[c].response),
                                  ReadPrefixes[task[c].idx]))
                     => Data(state') = Data(state)
          ELSE current \in {c, NoTask} => Data(state') = Data(state)]_vars

\* C9 witness: the first read (RTS1) was answered with a well-formed
\* RNS1 line; the scale is unchanged, the operation mode is what an
\* earlier RNS1 read made it.
C9_ForeignResponseIgnored ==
    \E c \in Callers :
        /\ pc[c] = "s_enter"
        /\ task[c].op = "update"
        /\ task[c].idx = 2
        /\ task[c].response = Some(Strip(Line.MODE_OFF))
        /\ state.temp_scale = Lit.F
        /\ ~state.is_manual_mode

\* C10: no step of a write operation changes a device-data field.
C10_WritesLeaveData ==
    [][\A c \in Callers :
          (pc'[c] # pc[c] /\ (task[c].op = "write" \/ task'[c].op = "write"))
              => Data(state') = Data(state)]_vars

\* C10 witness: a write of scale C was acknowledged and returns True; the
\* snapshot still holds scale F.
C10_AcknowledgedWriteNotMerged ==
    \E c \in Callers :
        /\ pc[c] = "ret"
        /\ task[c].op = "write"
        /\ task[c].ret = "True"
        /\ task[c].command = CMD.SET_TEMP_SCALE \o Lit.C
        /\ state.temp_scale = Lit.F

\* C11: the command a write call builds starts with the verb of its
\* operation: for hvac mode, fan mode, cool and heat setpoint the manual
\* verb when the snapshot's manual-mode flag is true at the call and the
\* schedule verb when it is false; for scale, relay mode, humidification
\* and dehumidification one verb whatever the flag.
C11_VerbFollowsModeFlag ==
    [][\A c \in Callers :
          (pc[c] = "idle" /\ pc'[c] = "s_enter" /\ task'[c].op = "write")
          => LET fn == WriteCalls[task'[c].call].fn
                 verb ==
                   CASE fn = "set_hvac_mode" ->
                          IF state.is_manual_mode THEN <<"W","N","M","S","1","D">>
                          ELSE <<"W","M","S","1","D">>
                     [] fn = "set_fan_mode" ->
                          IF state.is_manual_mode THEN <<"W","N","F","M","1","D">>
                          ELSE <<"W","F","M","1","D">>
                     [] fn = "set_cool_setpoint" ->
                          IF state.is_manual_mode THEN <<"W","N","C","D","1","D">>
                          ELSE <<"W","O","C","1","D">>
                     [] fn = "set_heat_setpoint" ->
                          IF state.is_manual_mode THEN <<"W","N","H","D","1","D">>
                          ELSE <<"W","O","H","1","D">>
                     [] fn = "set_temperature_scale" -> <<"W","T","S","1","D">>
                     [] fn = "set_relay_mode" -> <<"W","M","R","F","1","D">>
                     [] fn = "set_humidification" -> <<"W","M","H","S","1","D">>
                     [] OTHER -> <<"W","M","D","H","S","1","D">>
             IN  StartsWith(task'[c].command, verb)]_vars

\* C11 witness: a heat-setpoint write made in schedule mode is about to
\* send the schedule verb.
C11_ScheduleVerbSent ==
    \E c \in Callers :
        /\ pc[c] = "s_enter"
        /\ task[c].op = "write"
        /\ WriteCalls[task[c].call].fn = "set_heat_setpoint"
        /\ ~state.is_manual_mode
        /\ StartsWith(task[c].command, <<"W","O","H","1","D">>)

C13_WritesReturnBoolean ==
    \A c \in Callers :
        (pc[c] = "ret" /\ task[c].op = "write")
            => (task[c].ret \in {"True", "False"} /\ hist[c].connects <= 1)


\* The comma-separated fields of the payload of the response the caller's
\* frame holds: the payload is everything after the read's prefix.
\* The position of the k-th of the comma positions cs of a text of n
\* characters; 0 and n + 1 bracket the text.
NthComma(cs, n, k) ==
    IF k = 0 THEN 0
    ELSE IF k > Cardinality(cs) THEN n + 1
    ELSE CHOOSE j \in cs : Cardinality({x \in cs : x < j}) = k - 1

\* The fields of the payload p whose commas are at the positions cs.
FieldsBetween(p, cs) ==
    [i \in 1..(Cardinality(cs) + 1) |->
        SubSeq(p, NthComma(cs, Len(p), i - 1) + 1, NthComma(cs, Len(p), i) - 1)]

FieldsOf(response, prefix) ==
    CHOOSE f \in UNION {{FieldsBetween(p, cs) :
                            cs \in {{j \in 1..Len(p) : p[j] = COMMA}}} :
                        p \in {SubSeq(response, Len(prefix) + 1,
                                      Len(response))}} : TRUE

MergedFields(c) == FieldsOf(Val(task[c].response), ReadPrefixes[task[c].idx])

\* The three fields the RMHS1 and the RMDHS1 merge own, in payload order.
ControlFields(k) ==
    IF k = 6 THEN <<"hum_control_mode", "hum_setpoint", "hum_variance">>
    ELSE <<"dehum_control_mode", "dehum_setpoint", "dehum_variance">>

\* C14: the RMHS1 and RMDHS1 merges are all-or-nothing: with at least 3
\* fields whose second and third are integers, control mode, setpoint and
\* variance are all three updated; otherwise none of the three changes.
C14_AllOrNothing ==
    [][\A k \in {6, 7} :
          (task'["poll"].idx = k /\ hist'["poll"].merges > hist["poll"].merges)
          => \A f \in {MergedFields("poll")'} :
             LET n == ControlFields(k)
             IN  IF /\ Len(f) >= 3
                    /\ ParseInt(f[2]).ok
                    /\ ParseInt(f[3]).ok
                 THEN /\ state'[n[1]] = Some(Upper(Strip(f[1])))
                      /\ state'[n[2]] = Some(ParseInt(f[2]).v)
                      /\ state'[n[3]] = Some(ParseInt(f[3]).v)
                 ELSE \A i \in 1..3 : state'[n[i]] = state[n[i]]]_vars

\* C15: merging an RAS1 payload of fewer than 11 comma-separated fields
\* leaves every field of the snapshot unchanged.
C15_ShortRecordDiscarded ==
    [][(task'["poll"].idx = 2 /\ hist'["poll"].merges > hist["poll"].merges)
       => \A f \in {MergedFields("poll")'} :
              Len(f) < 11 => state' = state]_vars

\* A record of 10 fields was merged into a snapshot that an earlier record
\* had filled.
C15_ShortRecordAfterFull ==
    /\ task["poll"].idx = 2
    /\ Len(MergedFields("poll")) = 10
    /\ state.hvac_mode = Some(Lit.HEAT)
    /\ state.stage = Some(2)

\* The tokens that make override and recovery true.
YesTokens == {<<"Y","E","S">>, <<"Y">>, <<"T","R","U","E">>, <<"1">>}

\* C16: for every RAS1 payload of at least 11 fields (a token is a field
\* without its surrounding whitespace) the merge sets hvac mode and
\* operating status to tokens 3 and 9 uppercased; fan mode to ON iff token 4
\* uppercased contains ON, else AUTO; override and recovery to true iff
\* their token uppercased is YES, Y, TRUE or 1; cool and heat setpoint to
\* the integers of tokens 7 and 8, keeping the previous value when the token
\* is not an integer; stage to the integer of token 10, or absent; event to
\* absent iff token 11 uppercased is NONE, else the token.  The payload
\* 68,NA,HEAT,FAN ON,NO,NO,77,68,HEAT,1,NONE gives indoor 68, outdoor
\* absent, HEAT, ON, false, false, 77, 68, HEAT, stage 1, event absent.
C16_AllStatesMerged ==
    [][(task'["poll"].idx = 2 /\ hist'["poll"].merges > hist["poll"].merges)
       => \A f \in {MergedFields("poll")'} :
          Len(f) >= 11 =>
          /\ state'.hvac_mode = Some(Upper(Strip(f[3])))
          /\ state'.operating_status = Some(Upper(Strip(f[9])))
          /\ state'.fan_mode =
                Some(IF Contains(Upper(f[4]), <<"O","N">>)
                     THEN <<"O","N">> ELSE <<"A","U","T","O">>)
          /\ state'.override_active = (Upper(Strip(f[5])) \in YesTokens)
          /\ state'.recovery_active = (Upper(Strip(f[6])) \in YesTokens)
          /\ state'.cool_setpoint =
                IF ParseInt(f[7]).ok THEN Some(ParseInt(f[7]).v)
                ELSE state.cool_setpoint
          /\ state'.heat_setpoint =
                IF ParseInt(f[8]).ok THEN Some(ParseInt(f[8]).v)
                ELSE state.heat_setpoint
          /\ state'.stage =
                IF ParseInt(f[10]).ok THEN Some(ParseInt(f[10]).v) ELSE None
          /\ state'.event =
                IF Upper(Strip(f[11])) = <<"N","O","N","E">> THEN None
                ELSE Some(Strip(f[11]))
          /\ (task'["poll"].response = Some(<<"R","A","S","1",":","6","8",",","N","A",",","H","E","A","T",",","F","A","N"," ","O","N",",","N","O",",","N","O",",","7","7",",","6","8",",","H","E","A","T",",","1",",","N","O","N","E">>))
             => /\ state'.indoor_temp = Some([kind |-> "num", m |-> 68, e |-> 0])
                /\ state'.outdoor_temp = None
                /\ state'.hvac_mode = Some(<<"H","E","A","T">>)
                /\ state'.fan_mode = Some(<<"O","N">>)
                /\ ~state'.override_active
                /\ ~state'.recovery_active
                /\ state'.cool_setpoint = Some(77)
                /\ state'.heat_setpoint = Some(68)
                /\ state'.operating_status = Some(<<"H","E","A","T">>)
                /\ state'.stage = Some(1)
                /\ state'.event = None]_vars

\* A record whose cool setpoint token is not an integer was merged after a
\* record that set the cool setpoint to 80: the setpoint is still 80, and
\* the fan token FAN ON of the record gave ON.
C16_SetpointKept ==
    /\ task["poll"].idx = 2
    /\ Len(MergedFields("poll")) = 11
    /\ MergedFields("poll")[7] = <<"a","b","c">>
    /\ state.cool_setpoint = Some(80)
    /\ state.fan_mode = Some(Lit.ON)

\* C17: the snapshot carries a derived idle flag that, after every accepted
\* RAS1 record, is true exactly when the record's stage is 0 or its stage
\* token is not an integer, whatever the operating status, and false when
\* the stage is a non-zero integer.
C17_IdleFlagDerived ==
    (task["poll"].idx = 2 /\ Len(MergedFields("poll")) >= 11)
    => /\ "is_idle" \in DOMAIN state
       /\ state.is_idle = (\/ ~ParseInt(MergedFields("poll")[10]).ok
                           \/ ParseInt(MergedFields("poll")[10]).v = 0)

\* C18: merging an RMRF1 payload of two or more comma-separated fields sets
\* relay1 and relay2 to the first two tokens uppercased; a payload of
\* exactly one field sets only relay1 and relay2 keeps its value; an empty
\* payload (zero fields) changes neither relay1 nor relay2.
C18_RelayModeMerged ==
    [][(task'["poll"].idx = 5 /\ hist'["poll"].merges > hist["poll"].merges)
       => \A f \in {MergedFields("poll")'} :
          IF Val(task'["poll"].response) = RESP.RELAY_MODE
          THEN /\ state'.relay1_mode = state.relay1_mode
               /\ state'.relay2_mode = state.relay2_mode
          ELSE IF Len(f) >= 2
          THEN /\ state'.relay1_mode = Some(Upper(Strip(f[1])))
               /\ state'.relay2_mode = Some(Upper(Strip(f[2])))
          ELSE /\ state'.relay1_mode = Some(Upper(Strip(f[1])))
               /\ state'.relay2_mode = state.relay2_mode]_vars

\* A numeric token: digits, with at most signs, a decimal point and an
\* exponent mark around them.
NumericToken(t) ==
    /\ \E i \in 1..Len(t) : IsDigitCh(t[i])
    /\ \A i \in 1..Len(t) : IsDigitCh(t[i]) \/ t[i] \in {"+", "-", ".", "E"}

\* The temperature the claim gives the token `tok`.
TempAsClaimed(tok, temp) ==
    IF Upper(Strip(tok)) \in {<<"N","A">>, <<"-","-">>, <<>>, <<"N","/","A">>}
    THEN temp = None
    ELSE IF NumericToken(Upper(Strip(tok)))
    THEN /\ temp # None
         /\ Val(temp).kind = "num"
         /\ ParseInt(tok).ok => temp = Some(NormFloat(ParseInt(tok).v, 0))
    ELSE temp = None

\* C19: temperature tokens are parsed without raising: trimmed and
\* uppercased, NA, --, the empty token and N/A give an absent temperature,
\* a numeric token gives its value, and every non-numeric token gives an
\* absent temperature, never a number.
C19_TemperatureParsed ==
    (task["poll"].idx = 2 /\ Len(MergedFields("poll")) >= 11)
    => /\ TempAsClaimed(MergedFields("poll")[1], state.indoor_temp)
       /\ TempAsClaimed(MergedFields("poll")[2], state.outdoor_temp)

\* The value v clamped into lo..hi.
Clamped(v, lo, hi) == IF v < lo THEN lo ELSE IF v > hi THEN hi ELSE v

\* C20: for every integer setpoint and variance passed to the
\* humidification or the dehumidification write, the call is not rejected
\* and the command on the wire is the verb, the mode token (IH or WH, IC or
\* WC, by the independent flag), the setpoint clamped into 10..90 and the
\* variance clamped into 2..10, as plain decimal numbers; independent, 95,
\* 15 is sent as WMHS1DIH,90,10.
C20_ClampedOnWire ==
    (task["user"].op = "write" /\ Len(task["user"].args) = 3)
    => \A a \in {task["user"].args} :
       \A verb \in {IF task["user"].call = 10
                    THEN <<"W","M","H","S","1","D">>
                    ELSE <<"W","M","D","H","S","1","D">>} :
       \A f \in {FieldsOf(task["user"].command, verb)} :
          /\ pc["user"] = "s_enter"
          /\ task["user"].ret = "-"
          /\ StartsWith(task["user"].command, verb)
          /\ Len(f) = 3
          /\ f[1] = (IF task["user"].call = 10
                     THEN (IF a[1] THEN <<"I","H">> ELSE <<"W","H">>)
                     ELSE (IF a[1] THEN <<"I","C">> ELSE <<"W","C">>))
          /\ IsDigit(f[2]) /\ ParseInt(f[2]).v = Clamped(a[2], 10, 90)
          /\ IsDigit(f[3]) /\ ParseInt(f[3]).v = Clamped(a[3], 2, 10)
          /\ (a[2] \in 10..90 /\ a[3] \in 2..10)
             => (ParseInt(f[2]).v = a[2] /\ ParseInt(f[3]).v = a[3])
          /\ (task["user"].call = 10 /\ a = <<TRUE, 95, 15>>)
             => task["user"].command = <<"W","M","H","S","1","D","I","H",",","9","0",",","1","0">>

\* The humidification write was called with independent, 95, 15 and sends
\* WMHS1DIH,90,10.
C20_ExampleSent ==
    /\ pc["user"] = "s_enter"
    /\ task["user"].call = 10
    /\ task["user"].args = <<TRUE, 95, 15>>
    /\ task["user"].command = <<"W","M","H","S","1","D","I","H",",","9","0",",","1","0">>

\* C21: disconnect() returns, without raising, with no socket handle,
\* authenticated false and connected false, in whatever state it was
\* called; on a client that is already in that condition (after a
\* disconnect, or never connected) no step of it changes the handles, the
\* flag or the snapshot.
C21_DisconnectIdempotent ==
    [][\A c \in Callers :
          /\ (pc'[c] = "ret" /\ task'[c].op = "disconnect")
                => /\ writer' = None
                   /\ reader' = None
                   /\ ~authenticated'
                   /\ ~state'.connected
                   /\ task'[c].ret = "None"
          /\ (/\ task'[c].op = "disconnect"
              /\ pc'[c] # pc[c]
              /\ writer = None /\ reader = None
              /\ ~authenticated /\ ~state.connected)
                => <<writer, reader, authenticated, state>>'
                       = <<writer, reader, authenticated, state>>]_vars

\* A disconnect() returns while an update cycle that had a live connection
\* waits for the lock to send its next read.
C21_DisconnectedMidCycle ==
    /\ pc["user"] = "ret"
    /\ task["user"].op = "disconnect"
    /\ pc["poll"] = "s_lockwait"
    /\ task["poll"].idx >= 2
    /\ ~hist["poll"].unauthAtIssue

\* What a reader of the coordinator gets: coordinator.data.get(key).
DataGet(data, key) ==
    IF data = None THEN None ELSE Get(CHOOSE d \in data : TRUE, key)

\* The primary document arrived and parses.
PrimaryFetched ==
    /\ fetched.index.status = "200"
    /\ fetched.index.body.kind = "xml"

\* C22: a poll cycle whose primary document (index.xml) arrived and
\* parses returns data holding the primary document's values, whatever
\* the fetches of co2.json, confighumidity.htm and schedule.xml did
\* (other status, timeout, connection error, unparseable body).
C22_AuxiliaryFailureSuppressed ==
    (fetched.step = "done" /\ PrimaryFetched)
        => /\ fetched.result = "data"
           /\ coordinator.last_update_success
           /\ \A key \in DOMAIN fetched.index.body.items :
                 DataGet(coordinator.data, key)
                     = fetched.index.body.items[key]

\* C23: after a cycle that received a co2.json whose co2 object has no
\* valid member equal to "true", readers see the CO2 level, peak level,
\* alert level and in-alert flag they saw before the cycle.
C23_InvalidCo2BlockIgnored ==
    (/\ fetched.step = "done" /\ fetched.result = "data"
     /\ fetched.co2.status = "200" /\ fetched.co2.body.kind = "co2"
     /\ Get(fetched.co2.body.items, "valid") # Some("true"))
        => \A key \in {"co2_level", "co2_peak_level", "co2_alert_level",
                       "co2_in_alert"} :
               DataGet(coordinator.data, key) = DataGet(fetched.before, key)

\* C24: whenever a caller writes a command line (the step of
\* _send_command that passes the handle check inside the lock), the
\* authenticated flag is true.
C24_CommandWrittenAuthenticated ==
    [][\A c \in Callers :
          (pc[c] = "s_locked" /\ pc'[c] = "s_read") => authenticated]_vars

\* No call of the client is in progress.
NoOperationInProgress == \A c \in Callers : pc[c] = "idle"

\* C25: whenever no operation is in progress, a present socket handle
\* implies that the authenticated flag is true (a command timeout, a
\* command I/O error and a failed login each leave no handle behind).
C25_HandleImpliesAuthenticated ==
    (NoOperationInProgress /\ writer # None) => authenticated

\* C26: a command whose response read met the end of the stream (the
\* peer closed: readline() gave no line) returns failure and leaves the
\* authenticated and connected flags false.
C26_EndOfStreamIsFailure ==
    [][\A c \in Callers :
          (pc[c] = "s_read" /\ pc'[c] = "s_ret" /\ hist'[c].eof)
              => /\ task'[c].response = None
                 /\ ~authenticated'
                 /\ ~state'.connected]_vars

C28_ConnectedImpliesAuthenticated ==
    (NoOperationInProgress /\ state.connected) => authenticated

\* C29: merging an RRHS1 response whose payload holds no number (it is
\* empty, or has no digit) leaves the snapshot's humidity as it was.
C29_UnparseableHumidityKept ==
    [][(task'["poll"].idx = 3 /\ hist'["poll"].merges > hist["poll"].merges)
       => \A p \in {SubSeq(Val(task'["poll"].response),
                           Len(RESP.HUMIDITY) + 1,
                           Len(Val(task'["poll"].response)))} :
             (\A i \in 1..Len(p) : ~IsDigitCh(p[i]))
                 => state'.humidity = state.humidity]_vars

\* C30: while a caller's update cycle is in progress (from its first
\* read command until the step that finishes it) the device data that
\* readers of the snapshot see do not change: no step before the cycle's
\* end makes a part of the cycle's results visible.
C30_NoHalfFinishedCycleVisible ==
    [][\A c \in Callers :
          (/\ task[c].op = "update" /\ pc[c] \notin {"idle", "ret"}
           /\ pc'[c] # "ret")
              => Data(state') = Data(state)]_vars

\* C31: a connect() made on behalf of a command (the command found the
\* authenticated flag false) does not close a connection that is
\* authenticated: the connection another caller has just logged in on
\* serves this command too.
C31_AuthenticatedConnectionKept ==
    [][\A c \in Callers :
          (pc[c] = "c_locked" /\ pc'[c] = "c_close" /\ task[c].nested)
              => ~authenticated]_vars

\* C32: whenever no operation is in progress the lock is free and nobody
\* waits for it, and a caller that waits for the lock eventually gets
\* past the wait.
C32_NoCallBlocksOnLock ==
    /\ [](NoOperationInProgress => (~locked /\ waiters = <<>>))
    /\ \A c \in Callers :
          (pc[c] \in LockWaits) ~> (pc[c] \notin LockWaits)

\* C34: the lock, once taken, is eventually released: no wait made while
\* holding it lasts forever.
C34_LockEventuallyReleased == locked ~> ~locked

\* The connection-level failures lastEvent records.
ConnectionFailures == {"connect_fail", "cmd_timeout", "cmd_error"}

\* C33: a command issued when the latest connection event is a failure
\* calls connect() itself before anything else; when that connect()
\* found the device answering the login with OK the command is written
\* on the new connection, authenticated; and an update cycle that
\* returns on an authenticated connection returns connected = true and
\* last_error absent.
C33_TransparentRecovery ==
    [][\A c \in Callers :
          /\ (pc[c] = "s_enter" /\ pc'[c] # "s_enter"
              /\ lastEvent \in ConnectionFailures)
                => (pc'[c] = "c_enter" /\ task'[c].nested)
          /\ (pc[c] = "s_locked" /\ pc'[c] # "s_locked"
              /\ hist[c].unauthAtIssue /\ task[c].cret)
                => (pc'[c] = "s_read" /\ authenticated
                    /\ stream.failed = "no")
          /\ (pc'[c] = "ret" /\ pc[c] # "ret" /\ task'[c].op = "update"
              /\ authenticated')
                => (state'.connected /\ state'.last_error = None)]_vars

\* C33 witness: an update cycle has returned connected, without error, on
\* a connection that one of its reads opened after a command had failed
\* on the connection before.
C33_RecoveredCycle ==
    \E c \in Callers :
        /\ pc[c] = "ret" /\ task[c].op = "update"
        /\ authenticated /\ stream.afterFailure /\ stream.failed = "no"
        /\ hist[c].connects = 0
        /\ state.connected /\ state.last_error = None

\* C35: at most one stream is open at any moment, and an open stream is
\* the one the client's writer handle references.
C35_AtMostOneOpenStream ==
    /\ stream.open \in {0, 1}
    /\ stream.open = 1 => writer # None

\* C35 witness: a connect() that found a stream has closed it and opened
\* the next one, while the other caller is inside a call of its own.
C35_ReopenedAfterClose ==
    \E c \in Callers :
        /\ pc[c] = "c_read" /\ stream.afterFailure
        /\ stream.open = 1
        /\ \E d \in Callers \ {c} : pc[d] # "idle"

\* The kind of failure a last_error text tells: the texts of connect()
\* start with a fixed phrase, any other text is a generic I/O failure.
ErrorKind(last_error) ==
    IF last_error = None THEN "absent"
    ELSE LET phrase == Head(Val(last_error)) IN
         CASE phrase \in {Head(ERR_TIMEOUT),
                          Head(ErrConnectionFailed("OSError"))}
                  -> "cannot connect"
           [] phrase = Head(ErrAuthFailed(<<>>)) -> "authentication failed"
           [] OTHER -> "generic"

\* C36: the step that records a connection-level failure leaves
\* last_error telling that failure: cannot-connect when the stream could
\* not be opened, authentication-failed when the login response was not
\* OK, a generic I/O text when a command timed out or met an I/O error.
C36_LastErrorTellsFailure ==
    [][\A c \in Callers :
          /\ (pc[c] = "c_open" /\ pc'[c] = "c_ret")
                => ErrorKind(state'.last_error) = "cannot connect"
          /\ (pc[c] = "c_read" /\ pc'[c] = "c_ret" /\ ~task'[c].cret
              /\ task'[c].login_response # None)
                => ErrorKind(state'.last_error) = "authentication failed"
          /\ (pc[c] = "s_read" /\ pc'[c] = "s_ret"
              /\ task'[c].response = None)
                => ErrorKind(state'.last_error) = "generic"]_vars

\* The fetch of index.xml failed: another status, a timeout or connection
\* error, or a document that does not parse.
IndexFetchFailed ==
    /\ fetched.index.status # "none"
    /\ ~PrimaryFetched

\* C37: a poll cycle whose fetch of index.xml failed surfaces no error
\* (it returns data and the refresh counts as successful) and readers see
\* the humidity they saw before.
C37_IndexFailureSilent ==
    (fetched.step = "done" /\ IndexFetchFailed)
        => /\ fetched.result = "data"
           /\ coordinator.last_update_success
           /\ DataGet(coordinator.data, "humidity")
                  = DataGet(fetched.before, "humidity")


\* The modes the snapshot documents: hvac_mode OFF, HEAT, COOL, AUTO;
\* fan_mode AUTO, ON.
HvacModes == {Lit.OFF, Lit.HEAT, Lit.COOL, Lit.AUTO}
FanModes == {Lit.AUTO, Lit.ON}

\* C38: in every reachable state the snapshot's hvac mode is absent or
\* one of OFF, HEAT, COOL, AUTO, and its fan mode is absent or one of
\* AUTO, ON, whatever the RAS1 responses merged so far held.
C38_ModesWithinEnumerations ==
    /\ state.hvac_mode \in {None} \cup {Some(m) : m \in HvacModes}
    /\ state.fan_mode \in {None} \cup {Some(m) : m \in FanModes}

\* The payload names Celsius: it holds the word, or is the letter C.
ReportsCelsius(payload) ==
    \/ Contains(Upper(payload), <<"C","E","L","S","I","U","S">>)
    \/ Upper(Strip(payload)) = Lit.C

\* C39: the snapshot's scale is F until a read reports otherwise, and
\* after the first merge of an accepted RTS1 response it is C only if the
\* payload of that response named Celsius (an empty or unrecognised
\* payload, or the single letter F, does not switch it to C).
C39_CelsiusOnlyWhenReported ==
    /\ hist["poll"].merges = 0 => state.temp_scale = Lit.F
    /\ (/\ hist["poll"].merges = 1
        /\ task["poll"].idx = 1
        /\ Accepts(task["poll"].response, RESP.TEMP_SCALE)
        /\ state.temp_scale = Lit.C)
           => ReportsCelsius(Payload(task["poll"].response, RESP.TEMP_SCALE))

\* C40: a successful write of one entity, made while another entity of
\* the group is still in the sleep that follows its own successful write
\* (so before the refresh that write asks for), leaves the other entity's
\* setting on the device as it is.
C40_WriteKeepsOtherSettings ==
    [][\A e \in Entities, other \in Entities :
          (/\ other # e
           /\ entities[other] = "sleep"
           /\ entities[e] = "idle" /\ entities'[e] = "sleep")
              => thermostat'[FormField[other]] = thermostat[FormField[other]]
      ]_vars

====
